---- MODULE Spec2Model ----
(***************************************************************************)
(* A model of the easy-solana library: the address codec, the account      *)
(* readers (classification, decoding, batch and single fetch), the         *)
(* metadata readers and the metadata merge of get_easy_solana_accounts,    *)
(* the address derivations, the Pump.fun bonding-curve price, the          *)
(* TransactionBuilder and the simulation of a transaction.                 *)
(*                                                                         *)
(* One call of a library function is one action.  The RPC provider is an   *)
(* external collaborator: the snapshot of the chain a call observes and    *)
(* the request at which the transport fails are inputs of the action.      *)
(* The state records the call (op, args), the requests it issued with      *)
(* their responses (rpcLog) and what it returned (result).  A              *)
(* TransactionBuilder lives through several calls: builder is the object   *)
(* and built the transactions its build calls have returned so far;        *)
(* attempts is the loop counter of a generate_keypair call.                 *)
(*                                                                         *)
(* Scale: an identifier is IdLen bytes of ByteBase values (32 bytes of 256 *)
(* in the program) and the textual alphabet has Len(Alphabet) digits (58   *)
(* in the program).                                                        *)
(***************************************************************************)
EXTENDS Integers, Sequences, FiniteSets, TLC

VARIABLES pc, op, args, chain, rpcLog, result, builder, built, attempts

vars == <<pc, op, args, chain, rpcLog, result, builder, built, attempts>>

(***************************************************************************)
(* Bounds of the model.                                                    *)
(***************************************************************************)
IdLen == 2
ByteBase == 4
MaxTextLen == 4
MaxBatch == 2
MaxStrLen == 2
MaxMantissa == 3
MaxInstructions == 2
MaxBuilds == 2
U32Values == 16
MaxPatternLen == 2
U64Attempts == 3

(***************************************************************************)
(* Generic helpers.                                                        *)
(***************************************************************************)
Range(s) == {s[i] : i \in 1..Len(s)}

SeqsUpTo(S, n) == UNION {[1..k -> S] : k \in 0..n}

RECURSIVE SelectSeqIdx(_, _)
\* the subsequence of s at the indices in keep, in order
SelectSeqIdx(s, keep) ==
    IF s = <<>> THEN <<>>
    ELSE LET n == Len(s)
             front == SelectSeqIdx(SubSeq(s, 1, n - 1), keep)
         IN IF n \in keep THEN Append(front, s[n]) ELSE front

Ok(v) == [ok |-> TRUE, val |-> v]
Err(e) == [ok |-> FALSE, err |-> e]

(***************************************************************************)
(* AddressCodec: base58 text <-> identifier.                               *)
(* Pubkey::to_string is bs58 encode of the bytes; str::parse::<Pubkey> is  *)
(* bs58 decode followed by the size check.                                 *)
(***************************************************************************)
\* the digits of the textual alphabet, digit value = index - 1 ("1" is zero)
Alphabet == <<"1", "2", "3">>
\* a character outside the alphabet (as 0, O, I, l in the program)
BadChar == "0"
TextChars == Range(Alphabet) \cup {BadChar}
Base == Len(Alphabet)

Bytes == 0..(ByteBase - 1)
IdBytes == [1..IdLen -> Bytes]
Texts == SeqsUpTo(TextChars, MaxTextLen)

DigitOf(c) == CHOOSE d \in 0..(Base - 1) : Alphabet[d + 1] = c

RECURSIVE LeadingCount(_, _)
\* how many leading elements of s equal z
LeadingCount(s, z) ==
    IF s = <<>> \/ s[1] # z THEN 0 ELSE 1 + LeadingCount(Tail(s), z)

RECURSIVE DigitsToNum(_, _)
\* the number a big-endian digit string denotes in base b
DigitsToNum(ds, b) ==
    IF ds = <<>> THEN 0
    ELSE DigitsToNum(SubSeq(ds, 1, Len(ds) - 1), b) * b + ds[Len(ds)]

RECURSIVE NumToDigits(_, _)
\* the minimal big-endian digit string of n in base b (empty for 0)
NumToDigits(n, b) ==
    IF n = 0 THEN <<>> ELSE Append(NumToDigits(n \div b, b), n % b)

Repeat(x, n) == [i \in 1..n |-> x]

\* bs58::encode(bytes): one "1" per leading zero byte, then the number
bs58_encode(bytes) ==
    LET zeros == LeadingCount(bytes, 0)
        ds == NumToDigits(DigitsToNum(bytes, ByteBase), Base)
    IN Repeat(Alphabet[1], zeros) \o [i \in 1..Len(ds) |-> Alphabet[ds[i] + 1]]

\* bs58::decode(text): fails on a character outside the alphabet; else one
\* zero byte per leading "1", then the minimal bytes of the number
bs58_decode(text) ==
    IF \E i \in 1..Len(text) : text[i] \notin Range(Alphabet)
    THEN Err("Invalid")
    ELSE LET ones == LeadingCount(text, Alphabet[1])
             ds == [i \in 1..Len(text) |-> DigitOf(text[i])]
         IN Ok(Repeat(0, ones) \o NumToDigits(DigitsToNum(ds, Base), ByteBase))

Pubkey(bytes) == [bytes |-> bytes]
Pubkeys == {Pubkey(b) : b \in IdBytes}

\* Pubkey::to_string
pubkey_to_string(pk) == bs58_encode(pk.bytes)

\* a parse that accepts a decoded byte string of any length
address_to_pubkey_NoSizeCheck(address) ==
    LET d == bs58_decode(address)
    IN IF ~d.ok THEN Err("Invalid") ELSE Ok(Pubkey(d.val))

\* a parse that drops the leading zero bytes
address_to_pubkey_NoLeadingZeros(address) ==
    IF \E i \in 1..Len(address) : address[i] \notin Range(Alphabet)
    THEN Err("Invalid")
    ELSE LET ds == [i \in 1..Len(address) |-> DigitOf(address[i])]
             b == NumToDigits(DigitsToNum(ds, Base), ByteBase)
         IN IF Len(b) # IdLen THEN Err("WrongSize") ELSE Ok(Pubkey(b))

\* address.parse::<Pubkey>(): Ok(pubkey) or ParsePubkeyError (Invalid, WrongSize)
address_to_pubkey(address) ==
    LET d == bs58_decode(address)
    IN IF ~d.ok THEN Err("Invalid")
       ELSE IF Len(d.val) # IdLen THEN Err("WrongSize")
       ELSE Ok(Pubkey(d.val))

\* a batch parse that keeps an entry for every input (an invalid one becomes
\* the all-zero identifier)
addresses_to_pubkeys_Default(addresses) ==
    [i \in 1..Len(addresses) |->
        IF address_to_pubkey(addresses[i]).ok
        THEN address_to_pubkey(addresses[i]).val
        ELSE Pubkey(Repeat(0, IdLen))]

\* filter_map(|addr| addr.parse::<Pubkey>().ok()).collect()
addresses_to_pubkeys(addresses) ==
    LET valid == {i \in 1..Len(addresses) : address_to_pubkey(addresses[i]).ok}
        kept == SelectSeqIdx(addresses, valid)
    IN [i \in 1..Len(kept) |-> address_to_pubkey(kept[i]).val]

\* From<ParsePubkeyError>: every parse error surfaces as InvalidAddress
InvalidAddress(e) == [ok |-> FALSE, err |-> "InvalidAddress", cause |-> e.err]

(***************************************************************************)
(* Well-known program identifiers (constants.rs) and sample addresses.     *)
(***************************************************************************)
\* the identifier whose bytes are the big-endian representation of n
IdOf(n) ==
    LET ds == NumToDigits(n, ByteBase)
    IN Pubkey(Repeat(0, IdLen - Len(ds)) \o ds)

\* Pubkey::from_str("11111111111111111111111111111111"): the all-zero bytes
system_program == address_to_pubkey(Repeat(Alphabet[1], IdLen)).val
token_program == IdOf(1)
token_2022_program == IdOf(2)
metadata_program == IdOf(3)

AddrA == IdOf(4)
AddrB == IdOf(5)
AddrC == IdOf(6)

\* a seed list: a leading byte-string literal ("" when there is none) and
\* the identifiers that follow it
Seeds(label, keys) == [label |-> label, keys |-> keys]

\* Pubkey::find_program_address(seeds, program): a collision-free derived
\* address, distinct from every identifier that has a textual preimage here
find_program_address(seeds, program) == [program |-> program, seeds |-> seeds]

\* seeds [b"metadata", metadata_program, token_pubkey] under metadata_program
metadata_pubkey_of(token_pubkey) ==
    find_program_address(Seeds("metadata", <<metadata_program, token_pubkey>>),
                         metadata_program)

(***************************************************************************)
(* Raw accounts and payload layouts.                                       *)
(* A payload (Vec<u8>) is modelled by what the three decoders read of it:  *)
(*   len   - its byte length class: "zero", "mint" (Mint::LEN), "token"    *)
(*           (Account::LEN) or "other";                                    *)
(*   init  - the initialized byte of the packed layout of that length;     *)
(*   pack  - the fields the packed layout holds;                           *)
(*   borsh - what a Borsh read of MetadataAccount from the head of the     *)
(*           bytes yields (NoMeta when it fails).  Borsh deserialize does  *)
(*           not require the input to be consumed, so a payload of any     *)
(*           non-zero length may hold one.                                 *)
(***************************************************************************)
NUL == "NUL"
Chars == {"a", " ", NUL}
Strs == SeqsUpTo(Chars, MaxStrLen)

NoMeta == [none |-> TRUE]
NoPack == [none |-> TRUE]

MetaRec(mint, name, symbol, uri) ==
    [mint |-> mint, data |-> [name |-> name, symbol |-> symbol, uri |-> uri]]

TokenPack(mint, owner, amount) == [mint |-> mint, owner |-> owner, amount |-> amount]
MintPack(supply, decimals) == [supply |-> supply, decimals |-> decimals]

Payload(len, init, pack, borsh) ==
    [len |-> len, init |-> init, pack |-> pack, borsh |-> borsh]

EmptyData == Payload("zero", FALSE, NoPack, NoMeta)

RawAccount(lamports, owner, executable, data) ==
    [lamports |-> lamports, owner |-> owner, executable |-> executable, data |-> data]

NoAccount == [missing |-> TRUE]

\* Pack::unpack for spl_token::state::Account: the length must be
\* Account::LEN and the state must not be Uninitialized
SplTokenAccount_unpack(data) ==
    IF data.len # "token" THEN Err("InvalidAccountData")
    ELSE IF ~data.init THEN Err("UninitializedAccount")
    ELSE Ok(data.pack)

\* Pack::unpack for spl_token::state::Mint: the length must be Mint::LEN and
\* is_initialized must be set
SplMintAccount_unpack(data) ==
    IF data.len # "mint" THEN Err("InvalidAccountData")
    ELSE IF ~data.init THEN Err("UninitializedAccount")
    ELSE Ok(data.pack)

\* MetadataAccount::deserialize(&mut data.as_ref()): the strings come back as
\* stored, padding included
MetadataAccount_deserialize(data) ==
    IF data.len = "zero" \/ data.borsh = NoMeta THEN Err("Borsh")
    ELSE Ok(data.borsh)

RECURSIVE trim_end_matches_nul(_)
\* str::trim_end_matches('\0')
trim_end_matches_nul(s) ==
    IF s # <<>> /\ s[Len(s)] = NUL
    THEN trim_end_matches_nul(SubSeq(s, 1, Len(s) - 1))
    ELSE s

\* lamports as f64 / LAMPORTS_PER_SOL as f64
sol_balance_of(lamports) == [lamports |-> lamports, per |-> "LAMPORTS_PER_SOL"]

(***************************************************************************)
(* RpcGateway.  ch is the snapshot of the chain (identifier -> account),   *)
(* fail tells whether the transport fails for this request.                *)
(***************************************************************************)
Lookup(ch, pk) == IF pk \in DOMAIN ch THEN ch[pk] ELSE NoAccount

Req(method, keys, ok) == [method |-> method, keys |-> keys, ok |-> ok]

\* RpcClient::get_account: a missing account is the provider's ForUser error
client_get_account(ch, pk, fail) ==
    IF fail THEN Err("Transport")
    ELSE IF Lookup(ch, pk) = NoAccount THEN Err("ForUser")
    ELSE Ok(Lookup(ch, pk))

\* RpcClient::get_multiple_accounts: one Option<Account> per requested key
client_get_multiple_accounts(ch, pks, fail) ==
    IF fail THEN Err("Transport")
    ELSE Ok([i \in 1..Len(pks) |-> Lookup(ch, pks[i])])

\* a conversion without the ForUser arm: every client error becomes RpcError
From_RpcClientError_Fallback(e) == Err("RpcError")

\* impl From<RpcClientError> for ReadTransactionError (error.rs)
From_RpcClientError(e) ==
    IF e.err = "ForUser" THEN Err("RpcForUserError") ELSE Err("RpcError")

\* the reader modules' AccountReaderError::from(RpcClientError)
AccountReaderError_from(e) == Err("RpcClientError")

(***************************************************************************)
(* read_transactions/account.rs: get_account and get_multiple_accounts.    *)
(***************************************************************************)
Variant(v, details) == [variant |-> v, details |-> details]
NoDetails == [none |-> TRUE]

\* a classification that probes the metadata layout before the packed ones
rt_account_type_single_MetadataFirst(account) ==
    IF account.executable THEN Variant("Program", NoDetails)
    ELSE IF account.owner = system_program THEN Variant("Wallet", NoDetails)
    ELSE IF MetadataAccount_deserialize(account.data).ok
         THEN Variant("Metadata", MetadataAccount_deserialize(account.data).val)
    ELSE IF SplMintAccount_unpack(account.data).ok
         THEN Variant("Mint", SplMintAccount_unpack(account.data).val)
    ELSE IF SplTokenAccount_unpack(account.data).ok
         THEN Variant("AssociatedToken", SplTokenAccount_unpack(account.data).val)
    ELSE Variant("Others", NoDetails)

\* get_account, lines 71-89: the single-fetch classification
rt_account_type_single(account) ==
    IF account.executable THEN Variant("Program", NoDetails)
    ELSE IF account.owner = system_program THEN Variant("Wallet", NoDetails)
    ELSE IF SplMintAccount_unpack(account.data).ok
         THEN Variant("Mint", SplMintAccount_unpack(account.data).val)
    ELSE IF SplTokenAccount_unpack(account.data).ok
         THEN Variant("AssociatedToken", SplTokenAccount_unpack(account.data).val)
    ELSE IF MetadataAccount_deserialize(account.data).ok
         THEN Variant("Metadata", MetadataAccount_deserialize(account.data).val)
    ELSE Variant("Others", NoDetails)

\* get_multiple_accounts, lines 110-122: the batch classification
rt_account_type_batch(account) ==
    IF account.executable THEN Variant("Program", NoDetails)
    ELSE IF account.owner = system_program THEN Variant("Wallet", NoDetails)
    ELSE IF SplMintAccount_unpack(account.data).ok
         THEN Variant("Mint", SplMintAccount_unpack(account.data).val)
    ELSE IF SplTokenAccount_unpack(account.data).ok
         THEN Variant("AssociatedToken", SplTokenAccount_unpack(account.data).val)
    ELSE IF MetadataAccount_deserialize(account.data).ok
         THEN Variant("Metadata", MetadataAccount_deserialize(account.data).val)
    ELSE Variant("Others", NoDetails)

\* an Account whose data is emptied once the payload has been classified
Account_NoData(pubkey, lamports, account_type, data) ==
    [pubkey |-> pubkey, sol_balance |-> sol_balance_of(lamports),
     account_type |-> account_type, data |-> EmptyData]

Account(pubkey, lamports, account_type, data) ==
    [pubkey |-> pubkey, sol_balance |-> sol_balance_of(lamports),
     account_type |-> account_type, data |-> data]

Outcome(res, log) == [res |-> res, log |-> log]

\* get_account(client, address)
rt_get_account(address, ch, fails) ==
    LET p == address_to_pubkey(address)
    IN IF ~p.ok THEN Outcome(InvalidAddress(p), <<>>)
       ELSE LET r == client_get_account(ch, p.val, 1 \in fails)
                log == <<Req("get_account", <<p.val>>, r.ok)>>
            IN IF ~r.ok THEN Outcome(From_RpcClientError(r), log)
               ELSE Outcome(Ok(Account(address, r.val.lamports,
                                       rt_account_type_single(r.val), r.val.data)),
                            log)

\* get_multiple_accounts(client, addresses): the loop returns
\* Err(AccountNotFound) at the first None of the response
rt_get_multiple_accounts(addresses, ch, fails) ==
    LET pubkeys == addresses_to_pubkeys(addresses)
        r == client_get_multiple_accounts(ch, pubkeys, 1 \in fails)
        log == <<Req("get_multiple_accounts", pubkeys, r.ok)>>
    IN IF ~r.ok THEN Outcome(From_RpcClientError(r), log)
       ELSE IF \E i \in 1..Len(pubkeys) : r.val[i] = NoAccount
            THEN Outcome(Err("AccountNotFound"), log)
       ELSE Outcome(Ok([i \in 1..Len(pubkeys) |->
                          Account(pubkey_to_string(pubkeys[i]), r.val[i].lamports,
                                  rt_account_type_batch(r.val[i]), r.val[i].data)]),
                    log)

(***************************************************************************)
(* Metadata readers.                                                       *)
(***************************************************************************)
\* the three trim_end_matches('\0') assignments without the trim
trim_paddings_Untrimmed(m) == m

\* a trim that removes every NUL, not only the trailing run
RECURSIVE StripAllNul(_)
StripAllNul(s) ==
    IF s = <<>> THEN <<>>
    ELSE IF s[1] = NUL THEN StripAllNul(Tail(s))
    ELSE <<s[1]>> \o StripAllNul(Tail(s))

trim_paddings_StripAll(m) ==
    [m EXCEPT !.data = [name |-> StripAllNul(m.data.name),
                        symbol |-> StripAllNul(m.data.symbol),
                        uri |-> StripAllNul(m.data.uri)]]

\* "Trim paddings": name, symbol and uri each lose their trailing NULs
trim_paddings(m) ==
    [m EXCEPT !.data = [name |-> trim_end_matches_nul(m.data.name),
                        symbol |-> trim_end_matches_nul(m.data.symbol),
                        uri |-> trim_end_matches_nul(m.data.uri)]]

\* read_transactions/metadata.rs: get_metadata_of_token(client, token_address)
rt_get_metadata_of_token(token_address, ch, fails) ==
    LET p == address_to_pubkey(token_address)
    IN IF ~p.ok THEN Outcome(InvalidAddress(p), <<>>)
       ELSE LET metadata_pubkey == metadata_pubkey_of(p.val)
                r == client_get_account(ch, metadata_pubkey, 1 \in fails)
                log == <<Req("get_account", <<metadata_pubkey>>, r.ok)>>
            IN IF ~r.ok THEN Outcome(From_RpcClientError(r), log)
               ELSE LET d == MetadataAccount_deserialize(r.val.data)
                    IN IF ~d.ok THEN Outcome(Err("DeserializeError"), log)
                       ELSE Outcome(Ok(trim_paddings(d.val)), log)

\* the accounts of a batch response that exist and decode as metadata,
\* trimmed, in response order (flatten + filter_map)
decode_metadata_accounts(accounts) ==
    LET good == {i \in 1..Len(accounts) :
                    /\ accounts[i] # NoAccount
                    /\ MetadataAccount_deserialize(accounts[i].data).ok}
        kept == SelectSeqIdx(accounts, good)
    IN [i \in 1..Len(kept) |->
          trim_paddings(MetadataAccount_deserialize(kept[i].data).val)]

\* read_transactions/metadata.rs: get_metadata_of_tokens(client, token_addresses)
rt_get_metadata_of_tokens(token_addresses, ch, fails) ==
    LET token_pubkeys == addresses_to_pubkeys(token_addresses)
        pubkeys_of_metadata_account ==
            [i \in 1..Len(token_pubkeys) |-> metadata_pubkey_of(token_pubkeys[i])]
        r == client_get_multiple_accounts(ch, pubkeys_of_metadata_account, 1 \in fails)
        log == <<Req("get_multiple_accounts", pubkeys_of_metadata_account, r.ok)>>
    IN IF ~r.ok THEN Outcome(From_RpcClientError(r), log)
       ELSE Outcome(Ok(decode_metadata_accounts(r.val)), log)

\* reader/metadata_account.rs: get_metadata_of_token(client, token_pubkey);
\* nth is the number of the request among those of the calling operation
reader_get_metadata_of_token(token_pubkey, ch, fails, nth) ==
    LET metadata_pubkey == metadata_pubkey_of(token_pubkey)
        r == client_get_account(ch, metadata_pubkey, nth \in fails)
        log == <<Req("get_account", <<metadata_pubkey>>, r.ok)>>
    IN IF ~r.ok THEN Outcome(AccountReaderError_from(r), log)
       ELSE LET d == MetadataAccount_deserialize(r.val.data)
            IN IF ~d.ok THEN Outcome(Err("DeserializeError"), log)
               ELSE Outcome(Ok(trim_paddings(d.val)), log)

\* a metadata lookup that asks for each derived address in a request of its
\* own
reader_get_metadata_of_tokens_PerMint(token_pubkeys, ch, fails, nth) ==
    LET pubkeys_of_metadata_account ==
            [i \in 1..Len(token_pubkeys) |-> metadata_pubkey_of(token_pubkeys[i])]
        r == client_get_multiple_accounts(ch, pubkeys_of_metadata_account, nth \in fails)
        log == [i \in 1..Len(token_pubkeys) |->
                  Req("get_account", <<pubkeys_of_metadata_account[i]>>, r.ok)]
    IN IF ~r.ok THEN Outcome(AccountReaderError_from(r), log)
       ELSE Outcome(Ok(decode_metadata_accounts(r.val)), log)

\* reader/metadata_account.rs: get_metadata_of_tokens(client, token_pubkeys)
reader_get_metadata_of_tokens(token_pubkeys, ch, fails, nth) ==
    LET pubkeys_of_metadata_account ==
            [i \in 1..Len(token_pubkeys) |-> metadata_pubkey_of(token_pubkeys[i])]
        r == client_get_multiple_accounts(ch, pubkeys_of_metadata_account, nth \in fails)
        log == <<Req("get_multiple_accounts", pubkeys_of_metadata_account, r.ok)>>
    IN IF ~r.ok THEN Outcome(AccountReaderError_from(r), log)
       ELSE Outcome(Ok(decode_metadata_accounts(r.val)), log)

(***************************************************************************)
(* reader/easy_solana_account.rs: get_easy_solana_account(s).              *)
(***************************************************************************)
AssociatedTokenAccountDetails(t) ==
    [mint_address |-> t.mint, token_balance |-> t.amount, owner |-> t.owner]

MintAccountDetails(name, ticker, uri, m) ==
    [token_name |-> name, token_ticker |-> ticker, token_uri |-> uri,
     supply |-> m.supply, decimals |-> m.decimals]

EasySolanaAccount(pubkey, account, account_type) ==
    [pubkey |-> pubkey, sol_balance |-> sol_balance_of(account.lamports),
     owner |-> account.owner, executable |-> account.executable,
     data |-> account.data, account_type |-> account_type]

\* a classification that probes the token layout before it looks at the
\* executable flag and the owner
easy_account_type_batch_DecodeFirst(account) ==
    IF SplTokenAccount_unpack(account.data).ok
    THEN Variant("AssociatedTokenAccount",
           AssociatedTokenAccountDetails(SplTokenAccount_unpack(account.data).val))
    ELSE IF account.executable THEN Variant("Program", NoDetails)
    ELSE IF account.owner = system_program THEN Variant("Wallet", NoDetails)
    ELSE Variant("Others", NoDetails)

\* lines 155-185: the batch classification; a mint starts with empty strings
easy_account_type_batch(account) ==
    IF account.executable THEN Variant("Program", NoDetails)
    ELSE IF account.owner = system_program THEN Variant("Wallet", NoDetails)
    ELSE IF account.owner = token_program
         THEN IF SplTokenAccount_unpack(account.data).ok
              THEN Variant("AssociatedTokenAccount",
                     AssociatedTokenAccountDetails(SplTokenAccount_unpack(account.data).val))
              ELSE IF SplMintAccount_unpack(account.data).ok
              THEN Variant("MintAccount",
                     MintAccountDetails(<<>>, <<>>, <<>>,
                                        SplMintAccount_unpack(account.data).val))
              ELSE Variant("Others", NoDetails)
    ELSE Variant("Others", NoDetails)

\* lines 91-128: the single-fetch classification; md is the outcome of the
\* metadata lookup the MintAccount branch makes
easy_account_type_single(account, md) ==
    IF account.executable THEN Variant("Program", NoDetails)
    ELSE IF account.owner = system_program THEN Variant("Wallet", NoDetails)
    ELSE IF account.owner = token_program
         THEN IF SplTokenAccount_unpack(account.data).ok
              THEN Variant("AssociatedTokenAccount",
                     AssociatedTokenAccountDetails(SplTokenAccount_unpack(account.data).val))
              ELSE IF SplMintAccount_unpack(account.data).ok
              THEN Variant("MintAccount",
                     IF md.res.ok
                     THEN MintAccountDetails(md.res.val.data.name, md.res.val.data.symbol,
                            md.res.val.data.uri, SplMintAccount_unpack(account.data).val)
                     ELSE MintAccountDetails(<<>>, <<>>, <<>>,
                            SplMintAccount_unpack(account.data).val))
              ELSE Variant("Others", NoDetails)
    ELSE Variant("Others", NoDetails)

\* get_easy_solana_account(client, pubkey): a mint makes a second request for
\* its metadata, whose failure leaves the strings empty
easy_get_easy_solana_account(pubkey, ch, fails) ==
    LET r == client_get_account(ch, pubkey, 1 \in fails)
        log == <<Req("get_account", <<pubkey>>, r.ok)>>
    IN IF ~r.ok THEN Outcome(AccountReaderError_from(r), log)
       ELSE LET md == reader_get_metadata_of_token(pubkey, ch, fails, 2)
                account_type == easy_account_type_single(r.val, md)
            IN Outcome(Ok(EasySolanaAccount(pubkey, r.val, account_type)),
                       IF account_type.variant = "MintAccount"
                       THEN log \o md.log ELSE log)

RECURSIVE merge_metadata(_, _)
\* lines 212-220: each metadata account, in order, is written into the first
\* entry whose pubkey equals its mint, if that entry is a MintAccount
merge_metadata(easy_accounts, metadata_accounts) ==
    IF metadata_accounts = <<>> THEN easy_accounts
    ELSE LET m == metadata_accounts[1]
             hits == {i \in 1..Len(easy_accounts) : easy_accounts[i].pubkey = m.mint}
             merged ==
                IF hits = {} THEN easy_accounts
                ELSE LET first == CHOOSE i \in hits : \A j \in hits : i <= j
                     IN IF easy_accounts[first].account_type.variant = "MintAccount"
                        THEN [easy_accounts EXCEPT
                                ![first].account_type.details.token_name = m.data.name,
                                ![first].account_type.details.token_ticker = m.data.symbol,
                                ![first].account_type.details.token_uri = m.data.uri]
                        ELSE easy_accounts
         IN merge_metadata(merged, Tail(metadata_accounts))

\* get_easy_solana_accounts(client, pubkeys)
easy_get_easy_solana_accounts(pubkeys, ch, fails) ==
    LET r == client_get_multiple_accounts(ch, pubkeys, 1 \in fails)
        log == <<Req("get_multiple_accounts", pubkeys, r.ok)>>
    IN IF ~r.ok THEN Outcome(AccountReaderError_from(r), log)
       ELSE LET present == {i \in 1..Len(pubkeys) : r.val[i] # NoAccount}
                idx == SelectSeqIdx([i \in 1..Len(pubkeys) |-> i], present)
                easy_accounts ==
                    [k \in 1..Len(idx) |->
                        EasySolanaAccount(pubkeys[idx[k]], r.val[idx[k]],
                                          easy_account_type_batch(r.val[idx[k]]))]
                mints == {k \in 1..Len(easy_accounts) :
                            easy_accounts[k].account_type.variant = "MintAccount"}
                mint_accounts == SelectSeqIdx(easy_accounts, mints)
                mint_pubkeys == [k \in 1..Len(mint_accounts) |-> mint_accounts[k].pubkey]
            IN IF mint_pubkeys = <<>> THEN Outcome(Ok(easy_accounts), log)
               ELSE LET md == reader_get_metadata_of_tokens(mint_pubkeys, ch, fails, 2)
                    IN IF ~md.res.ok THEN Outcome(md.res, log \o md.log)
                       ELSE Outcome(Ok(merge_metadata(easy_accounts, md.res.val)),
                                    log \o md.log)

(***************************************************************************)
(* reader/easy_solana_accounts/account.rs and reader/account.rs: the       *)
(* readers whose AccountType carries no details.                           *)
(***************************************************************************)
\* easy_solana_accounts/account.rs get_account, lines 103-117
esa_account_type_single(account) ==
    IF account.executable THEN "Program"
    ELSE IF account.owner = system_program THEN "Wallet"
    ELSE IF account.owner = token_program
         THEN IF SplTokenAccount_unpack(account.data).ok THEN "AssociatedTokenAccount"
              ELSE IF SplMintAccount_unpack(account.data).ok THEN "MintAccount"
              ELSE "Others"
    ELSE "Others"

\* easy_solana_accounts/account.rs get_multiple_accounts, lines 165-180
esa_account_type_batch(account) ==
    IF account.executable THEN "Program"
    ELSE IF account.owner = system_program THEN "Wallet"
    ELSE IF account.owner = token_program
         THEN IF SplTokenAccount_unpack(account.data).ok THEN "AssociatedTokenAccount"
              ELSE IF SplMintAccount_unpack(account.data).ok THEN "MintAccount"
              ELSE "Others"
    ELSE "Others"

\* reader/account.rs AccountReader::get_easy_solana_accounts, lines 96-111
reader_account_type(account) ==
    IF account.executable THEN "Program"
    ELSE IF account.owner = system_program THEN "Wallet"
    ELSE IF account.owner = token_program
         THEN IF SplTokenAccount_unpack(account.data).ok THEN "AssociatedTokenAccount"
              ELSE IF SplMintAccount_unpack(account.data).ok THEN "MintAccount"
              ELSE "Others"
    ELSE "Others"

PlainAccount(pubkey, account, account_type) ==
    [pubkey |-> pubkey, sol_balance |-> sol_balance_of(account.lamports),
     owner |-> account.owner, executable |-> account.executable,
     data |-> account.data, account_type |-> Variant(account_type, NoDetails)]

\* easy_solana_accounts/account.rs: get_account(client, address)
esa_get_account(address, ch, fails) ==
    LET p == address_to_pubkey(address)
    IN IF ~p.ok THEN Outcome(InvalidAddress(p), <<>>)
       ELSE LET r == client_get_account(ch, p.val, 1 \in fails)
                log == <<Req("get_account", <<p.val>>, r.ok)>>
            IN IF ~r.ok THEN Outcome(AccountReaderError_from(r), log)
               ELSE Outcome(Ok(PlainAccount(p.val, r.val, esa_account_type_single(r.val))),
                            log)

\* the entries of a batch response that exist, classified by classify, in
\* response order (zip + filter_map)
present_accounts(pubkeys, accounts, classify(_)) ==
    LET present == {i \in 1..Len(pubkeys) : accounts[i] # NoAccount}
        idx == SelectSeqIdx([i \in 1..Len(pubkeys) |-> i], present)
    IN [k \in 1..Len(idx) |->
          PlainAccount(pubkeys[idx[k]], accounts[idx[k]], classify(accounts[idx[k]]))]

\* easy_solana_accounts/account.rs: get_multiple_accounts(client, addresses)
esa_get_multiple_accounts(addresses, ch, fails) ==
    LET pubkeys == addresses_to_pubkeys(addresses)
        r == client_get_multiple_accounts(ch, pubkeys, 1 \in fails)
        log == <<Req("get_multiple_accounts", pubkeys, r.ok)>>
    IN IF ~r.ok THEN Outcome(AccountReaderError_from(r), log)
       ELSE Outcome(Ok(present_accounts(pubkeys, r.val, esa_account_type_batch)), log)

\* reader/account.rs: AccountReader::get_easy_solana_accounts(pubkeys)
reader_get_easy_solana_accounts(pubkeys, ch, fails) ==
    LET r == client_get_multiple_accounts(ch, pubkeys, 1 \in fails)
        log == <<Req("get_multiple_accounts", pubkeys, r.ok)>>
    IN IF ~r.ok THEN Outcome(AccountReaderError_from(r), log)
       ELSE Outcome(Ok(present_accounts(pubkeys, r.val, reader_account_type)), log)

(***************************************************************************)
(* read_transactions/mint_account.rs and associated_token_account.rs: the  *)
(* typed batch readers.                                                    *)
(***************************************************************************)
\* get_multiple_mint_accounts(client, token_addresses)
rt_get_multiple_mint_accounts(token_addresses, ch, fails) ==
    LET token_pubkeys == addresses_to_pubkeys(token_addresses)
        r == client_get_multiple_accounts(ch, token_pubkeys, 1 \in fails)
        log == <<Req("get_multiple_accounts", token_pubkeys, r.ok)>>
    IN IF ~r.ok THEN Outcome(From_RpcClientError(r), log)
       ELSE LET good == {i \in 1..Len(token_pubkeys) :
                            /\ r.val[i] # NoAccount
                            /\ SplMintAccount_unpack(r.val[i].data).ok}
                kept == SelectSeqIdx(r.val, good)
            IN Outcome(Ok([i \in 1..Len(kept) |-> SplMintAccount_unpack(kept[i].data).val]),
                       log)

Min(a, b) == IF a <= b THEN a ELSE b

AssociatedTokenAccount(pubkey, owner_pubkey, mint_pubkey, mint, token_amount, program) ==
    [pubkey |-> pubkey, owner_pubkey |-> owner_pubkey, mint_pubkey |-> mint_pubkey,
     mint_supply |-> mint.supply, mint_decimals |-> mint.decimals,
     token_amount |-> token_amount, token_program |-> program]

\* lines 237-248: the requested accounts that exist and decode as token
\* accounts, with their pubkeys, in request order
decode_token_accounts(pubkeys, accounts) ==
    LET good == {i \in 1..Len(pubkeys) :
                    /\ accounts[i] # NoAccount
                    /\ SplTokenAccount_unpack(accounts[i].data).ok}
        idx == SelectSeqIdx([i \in 1..Len(pubkeys) |-> i], good)
    IN [k \in 1..Len(idx) |->
          [pubkey |-> pubkeys[idx[k]],
           token |-> SplTokenAccount_unpack(accounts[idx[k]].data).val]]

\* lines 254-263 and 399-407: the mint accounts of the response that exist
\* and decode, with their owner program, in response order
decode_mint_accounts(accounts) ==
    LET good == {i \in 1..Len(accounts) :
                    /\ accounts[i] # NoAccount
                    /\ SplMintAccount_unpack(accounts[i].data).ok}
        kept == SelectSeqIdx(accounts, good)
    IN [k \in 1..Len(kept) |->
          [mint |-> SplMintAccount_unpack(kept[k].data).val, owner |-> kept[k].owner]]

\* lines 268-281: token accounts zipped with the decoded mints by position
zip_token_accounts(token_accounts, mints) ==
    [k \in 1..Min(Len(token_accounts), Len(mints)) |->
        AssociatedTokenAccount(pubkey_to_string(token_accounts[k].pubkey),
                               pubkey_to_string(token_accounts[k].token.owner),
                               pubkey_to_string(token_accounts[k].token.mint),
                               mints[k].mint,
                               token_accounts[k].token.amount,
                               pubkey_to_string(mints[k].owner))]

\* lines 250-283: the second request and the zip
fetch_mints_and_zip(token_accounts, ch, fails, log1) ==
    LET mint_pubkeys == [k \in 1..Len(token_accounts) |-> token_accounts[k].token.mint]
        r2 == client_get_multiple_accounts(ch, mint_pubkeys, 2 \in fails)
        log2 == log1 \o <<Req("get_multiple_accounts", mint_pubkeys, r2.ok)>>
    IN IF ~r2.ok THEN Outcome(From_RpcClientError(r2), log2)
       ELSE Outcome(Ok(zip_token_accounts(token_accounts, decode_mint_accounts(r2.val))),
                    log2)

\* get_multiple_associated_token_accounts(client, associated_token_addresses):
\* the token accounts that decode are zipped, position by position, with the
\* mint accounts that decode
rt_get_multiple_associated_token_accounts(addresses, ch, fails) ==
    LET pubkeys == addresses_to_pubkeys(addresses)
        r1 == client_get_multiple_accounts(ch, pubkeys, 1 \in fails)
        log1 == <<Req("get_multiple_accounts", pubkeys, r1.ok)>>
    IN IF pubkeys = <<>> THEN Outcome(InvalidAddress(Err("Invalid")), <<>>)
       ELSE IF ~r1.ok THEN Outcome(From_RpcClientError(r1), log1)
       ELSE fetch_mints_and_zip(decode_token_accounts(pubkeys, r1.val), ch, fails, log1)

(***************************************************************************)
(* The parsed JSON of get_token_accounts_by_owner.  A JSON value is        *)
(* [j |-> tag, v |-> content]; an object's content is a record of its      *)
(* members.                                                                *)
(***************************************************************************)
JStr(t) == [j |-> "str", v |-> t]
JObj(members) == [j |-> "obj", v |-> members]
JNull == [j |-> "null", v |-> <<>>]

\* serde_json Value::get: None unless the value is an object with the member
json_get(value, key) ==
    IF value.j = "obj" /\ key \in DOMAIN value.v THEN value.v[key] ELSE JNull

DecDigits == <<"0", "1", "2", "3", "4", "5", "6", "7", "8", "9">>

\* str::parse::<u64>() (the width of u64 is not reached by the amounts used)
parse_u64(s) ==
    IF s = <<>> \/ \E i \in 1..Len(s) : s[i] \notin Range(DecDigits)
    THEN Err("ParseIntError")
    ELSE Ok(DigitsToNum([i \in 1..Len(s) |->
                            (CHOOSE d \in 0..9 : DecDigits[d + 1] = s[i])], Len(DecDigits)))

KeyedAccount(pubkey, owner, json, parsed) ==
    [pubkey |-> pubkey, owner |-> owner, json |-> json, parsed |-> parsed]

\* lines 324-382, one loop iteration: Ok(<<token>>) for an item that is
\* pushed, Ok(<<>>) for an item that is not UiAccountData::Json, Err for an
\* item on which a `?` returns
parse_keyed_account(keyed_account) ==
    LET p == address_to_pubkey(keyed_account.pubkey)
    IN IF ~p.ok THEN InvalidAddress(p)
       ELSE IF ~keyed_account.json THEN Ok(<<>>)
       ELSE
       LET info == json_get(keyed_account.parsed, "info")
       IN IF info.j # "obj" THEN Err("DeserializeError")
          ELSE IF json_get(info, "mint").j # "str" THEN Err("DeserializeError")
          ELSE IF ~address_to_pubkey(json_get(info, "mint").v).ok
               THEN InvalidAddress(address_to_pubkey(json_get(info, "mint").v))
          ELSE IF json_get(info, "owner").j # "str" THEN Err("DeserializeError")
          ELSE IF ~address_to_pubkey(json_get(info, "owner").v).ok
               THEN InvalidAddress(address_to_pubkey(json_get(info, "owner").v))
          ELSE
          LET token_amount == json_get(info, "tokenAmount")
          IN IF token_amount.j # "obj" THEN Err("DeserializeError")
             ELSE IF json_get(token_amount, "amount").j # "str" THEN Err("DeserializeError")
             ELSE IF ~parse_u64(json_get(token_amount, "amount").v).ok
                  THEN Err("DeserializeError")
             ELSE Ok(<<[pubkey |-> pubkey_to_string(p.val),
                        mint_pubkey |-> pubkey_to_string(
                            address_to_pubkey(json_get(info, "mint").v).val),
                        owner_pubkey |-> pubkey_to_string(
                            address_to_pubkey(json_get(info, "owner").v).val),
                        token_amount |-> parse_u64(json_get(token_amount, "amount").v).val,
                        token_program |-> keyed_account.owner]>>)

RECURSIVE parse_keyed_accounts(_)
\* the loop over the provider's token accounts: the first item on which a
\* `?` returns ends the whole call with that error
parse_keyed_accounts(items) ==
    IF items = <<>> THEN Ok(<<>>)
    ELSE LET head == parse_keyed_account(items[1])
         IN IF ~head.ok THEN head
            ELSE LET rest == parse_keyed_accounts(Tail(items))
                 IN IF ~rest.ok THEN rest ELSE Ok(head.val \o rest.val)

\* lines 410-422: the parsed token accounts zipped with the decoded mints by
\* position
zip_wallet_tokens(wallet_tokens, mints) ==
    [k \in 1..Min(Len(wallet_tokens), Len(mints)) |->
        AssociatedTokenAccount(wallet_tokens[k].pubkey,
                               wallet_tokens[k].owner_pubkey,
                               wallet_tokens[k].mint_pubkey,
                               mints[k].mint,
                               wallet_tokens[k].token_amount,
                               wallet_tokens[k].token_program)]

\* lines 384-424: the mint request and the zip
fetch_mints_of_wallet(wallet_tokens, ch, fails, log1) ==
    LET mint_addresses == [k \in 1..Len(wallet_tokens) |-> wallet_tokens[k].mint_pubkey]
        mint_pubkeys == addresses_to_pubkeys(mint_addresses)
        r2 == client_get_multiple_accounts(ch, mint_pubkeys, 2 \in fails)
        log2 == log1 \o <<Req("get_multiple_accounts", mint_pubkeys, r2.ok)>>
    IN IF Len(mint_addresses) # Len(mint_pubkeys)
       THEN Outcome(InvalidAddress(Err("Invalid")), log1)
       ELSE IF ~r2.ok THEN Outcome(From_RpcClientError(r2), log2)
       ELSE Outcome(Ok(zip_wallet_tokens(wallet_tokens, decode_mint_accounts(r2.val))),
                    log2)

\* get_all_token_accounts(client, wallet_address); by_owner is the provider's
\* answer to get_token_accounts_by_owner
rt_get_all_token_accounts(wallet_address, by_owner, ch, fails) ==
    LET w == address_to_pubkey(wallet_address)
        ok1 == ~(1 \in fails)
        log1 == <<Req("get_token_accounts_by_owner", <<w.val>>, ok1)>>
        parsed == parse_keyed_accounts(by_owner)
    IN IF ~w.ok THEN Outcome(InvalidAddress(w), <<>>)
       ELSE IF ~ok1 THEN Outcome(From_RpcClientError(Err("Transport")), log1)
       ELSE IF ~parsed.ok THEN Outcome(parsed, log1)
       ELSE fetch_mints_of_wallet(parsed.val, ch, fails, log1)

(***************************************************************************)
(* Derived addresses (read_transactions/associated_token_account.rs).      *)
(***************************************************************************)
\* Pubkey::from_str("ATokenGPvbdGVxr1b2hvZbsiqW5xWH25efTNsLJA8knL")
associated_token_account_program == IdOf(8)

\* Pubkey::to_string of a derived address: a text that address_to_pubkey
\* reads back as the same address and that no text of the model equals
derived_to_string(pda) == [text_of |-> pda]

\* seeds with the mint in front of the token program
associated_token_seeds_MintFirst(wallet, token_program_id, mint) ==
    Seeds("", <<wallet, mint, token_program_id>>)

\* lines 94-98 and 130-134: [wallet, token_program, mint], as bytes
associated_token_seeds(wallet, token_program_id, mint) ==
    Seeds("", <<wallet, token_program_id, mint>>)

\* a derivation that asks for one parsed address only and takes the first
\* and the last of those that parsed
derive_associated_token_account_address_AnyParsed(wallet_address, mint_address, token_program_id) ==
    LET pubkeys == addresses_to_pubkeys(<<wallet_address, mint_address>>)
    IN IF Len(pubkeys) = 0 THEN Err("Invalid")
       ELSE Ok(derived_to_string(find_program_address(
                   associated_token_seeds(pubkeys[1], token_program_id, pubkeys[Len(pubkeys)]),
                   associated_token_account_program)))

\* derive_associated_token_account_address(wallet_address, mint_address,
\* token_program)
derive_associated_token_account_address(wallet_address, mint_address, token_program_id) ==
    LET pubkeys == addresses_to_pubkeys(<<wallet_address, mint_address>>)
    IN IF Len(pubkeys) # 2 THEN Err("Invalid")
       ELSE Ok(derived_to_string(find_program_address(
                   associated_token_seeds(pubkeys[1], token_program_id, pubkeys[2]),
                   associated_token_account_program)))

RECURSIVE derive_for_mints(_, _, _)
\* lines 122-139: the loop over the mints of one wallet; the first mint
\* that does not parse ends the call
derive_for_mints(wallet_pubkey, mint_addresses, token_program_id) ==
    IF mint_addresses = <<>> THEN Ok(<<>>)
    ELSE LET mint_pubkey == address_to_pubkey(Head(mint_addresses))
         IN IF ~mint_pubkey.ok THEN Err("Invalid")
            ELSE LET rest == derive_for_mints(wallet_pubkey, Tail(mint_addresses),
                                              token_program_id)
                     address == derived_to_string(find_program_address(
                                    associated_token_seeds(wallet_pubkey, token_program_id,
                                                           mint_pubkey.val),
                                    associated_token_account_program))
                 IN IF ~rest.ok THEN rest ELSE Ok(<<address>> \o rest.val)

RECURSIVE derive_multiple_associated_token_account_addresses(_, _, _)
\* derive_multiple_associated_token_account_addresses(wallet_to_mints,
\* token_program); order is the order in which the HashMap yields its
\* wallets, and the result maps each wallet to its derived addresses
derive_multiple_associated_token_account_addresses(order, wallet_to_mints, token_program_id) ==
    IF order = <<>> THEN Ok(<<>>)
    ELSE LET wallet_address == Head(order)
             wallet_pubkey == address_to_pubkey(wallet_address)
         IN IF ~wallet_pubkey.ok THEN Err("Invalid")
            ELSE LET associated_token_accounts ==
                         derive_for_mints(wallet_pubkey.val, wallet_to_mints[wallet_address],
                                          token_program_id)
                 IN IF ~associated_token_accounts.ok THEN associated_token_accounts
                    ELSE LET rest == derive_multiple_associated_token_account_addresses(
                                         Tail(order), wallet_to_mints, token_program_id)
                         IN IF ~rest.ok THEN rest
                            ELSE Ok((wallet_address :> associated_token_accounts.val)
                                    @@ rest.val)

(***************************************************************************)
(* Pump.fun bonding curve (pumpfun/bonding_curve.rs).  A u64 is held as a  *)
(* mantissa and a decimal exponent, m * 10^e, and an f64 as the exact      *)
(* fraction (n / d) * 10^e in lowest terms; the rounding of f64 operations *)
(* is not represented.                                                     *)
(***************************************************************************)
\* the u64 m * 10^e
U64(m, e) == IF m = 0 THEN [m |-> 0, e |-> 0] ELSE [m |-> m, e |-> e]

RECURSIVE Gcd(_, _)
Gcd(a, b) == IF b = 0 THEN a ELSE Gcd(b, a % b)

RECURSIVE F64(_, _, _)
\* the fraction (n / d) * 10^e in its unique form: n and d coprime, no
\* factor 10 in n, no factor 2 or 5 in d
F64(n, d, e) ==
    IF n = 0 THEN [n |-> 0, d |-> 1, e |-> 0]
    ELSE IF n % 10 = 0 THEN F64(n \div 10, d, e + 1)
    ELSE IF d % 10 = 0 THEN F64(n, d \div 10, e - 1)
    ELSE IF Gcd(n, d) > 1 THEN F64(n \div Gcd(n, d), d \div Gcd(n, d), e)
    ELSE IF d % 2 = 0 THEN F64(5 * n, d \div 2, e - 1)
    ELSE IF d % 5 = 0 THEN F64(2 * n, d \div 5, e - 1)
    ELSE [n |-> n, d |-> d, e |-> e]

\* x as f64
u64_as_f64(x) == F64(x.m, 1, x.e)

\* the f64 values that are no fraction
Infinity == [n |-> 1, d |-> 0, e |-> 0]
NaN == [n |-> 0, d |-> 0, e |-> 0]

\* a / b on f64 (operands are never negative here)
f64_div(a, b) ==
    IF a = NaN \/ b = NaN \/ (a = Infinity /\ b = Infinity) THEN NaN
    ELSE IF a = Infinity THEN Infinity
    ELSE IF b = Infinity THEN F64(0, 1, 0)
    ELSE IF b.n = 0 THEN (IF a.n = 0 THEN NaN ELSE Infinity)
    ELSE F64(a.n * b.d, a.d * b.n, a.e - b.e)

\* 10_f64.powi(k)
powi10(k) == F64(1, 1, k)

\* a * b on f64 (finite operands)
f64_mul(a, b) == F64(a.n * b.n, a.d * b.d, a.e + b.e)

RECURSIVE Pow10(_)
Pow10(k) == IF k = 0 THEN 1 ELSE 10 * Pow10(k - 1)

\* the fraction (n / d) * 10^e as numerator over denominator
f64_numerator(x) == IF x.e >= 0 THEN x.n * Pow10(x.e) ELSE x.n
f64_denominator(x) == IF x.e >= 0 THEN x.d ELSE x.d * Pow10(0 - x.e)

\* f64::round: to the nearest integer, a half away from zero
f64_round(x) ==
    IF x.d = 1 /\ x.e >= 0 THEN x
    ELSE F64((2 * f64_numerator(x) + f64_denominator(x)) \div (2 * f64_denominator(x)),
             1, 0)

\* x as u64 for a finite x that is not negative: the fraction is dropped
f64_as_u64(x) ==
    IF x.d = 1 /\ x.e >= 0 THEN U64(x.n, x.e)
    ELSE U64(f64_numerator(x) \div f64_denominator(x), 0)

\* the integer a u64 holds
u64_value(x) == x.m * Pow10(x.e)

RECURSIVE le_bytes_of(_, _)
\* the k low bytes of v, lowest first
le_bytes_of(v, k) ==
    IF k = 0 THEN <<>> ELSE <<v % 256>> \o le_bytes_of(v \div 256, k - 1)

RECURSIVE Reverse(_)
Reverse(s) == IF s = <<>> THEN <<>> ELSE Append(Reverse(Tail(s)), Head(s))

\* u64::to_be_bytes
to_be_bytes(x) == Reverse(le_bytes_of(u64_value(x), 8))

\* u64::to_le_bytes
to_le_bytes(x) == le_bytes_of(u64_value(x), 8)

\* solana_sdk::native_token::LAMPORTS_PER_SOL, 1_000_000_000
LAMPORTS_PER_SOL == U64(1, 9)

\* const PUMP_CURVE_TOKEN_DECIMALS: u8 = 6
PUMP_CURVE_TOKEN_DECIMALS == 6

\* struct BondingCurveAccount
BondingCurveAccount(vtok, vsol, rtok, rsol, supply, complete) ==
    [unkown_value |-> U64(0, 0),
     virtual_token_reserves |-> vtok,
     virtual_sol_reserves |-> vsol,
     real_token_reserves |-> rtok,
     real_sol_reserves |-> rsol,
     total_token_supply |-> supply,
     complete |-> complete]

\* line 28: virtual_sol_reserves as f64 / LAMPORTS_PER_SOL as f64
ui_virtual_sol_reserves(curve_state) ==
    f64_div(u64_as_f64(curve_state.virtual_sol_reserves), u64_as_f64(LAMPORTS_PER_SOL))

\* the token side of the price taken from the real reserves
ui_virtual_token_reserves_Real(curve_state) ==
    f64_div(u64_as_f64(curve_state.real_token_reserves),
            powi10(PUMP_CURVE_TOKEN_DECIMALS))

\* line 29: virtual_token_reserves as f64 / 10_f64.powi(PUMP_CURVE_TOKEN_DECIMALS)
ui_virtual_token_reserves(curve_state) ==
    f64_div(u64_as_f64(curve_state.virtual_token_reserves),
            powi10(PUMP_CURVE_TOKEN_DECIMALS))

\* a price whose guard looks at the token reserves only
calculate_token_price_OnlyTokenGuard(curve_state) ==
    IF curve_state.virtual_token_reserves = U64(0, 0)
    THEN Err("BondingCurveError")
    ELSE Ok(f64_div(ui_virtual_sol_reserves(curve_state),
                    ui_virtual_token_reserves(curve_state)))

\* calculate_token_price(curve_state)
calculate_token_price(curve_state) ==
    IF \/ curve_state.virtual_token_reserves = U64(0, 0)
       \/ curve_state.virtual_sol_reserves = U64(0, 0)
    THEN Err("BondingCurveError")
    ELSE Ok(f64_div(ui_virtual_sol_reserves(curve_state),
                    ui_virtual_token_reserves(curve_state)))

(***************************************************************************)
(* TransactionBuilder (write_transactions/).  A mutator returns the        *)
(* builder it leaves behind together with its Result; build returns the    *)
(* transaction.                                                            *)
(***************************************************************************)
pumpfun_program == IdOf(9)
compute_budget_program == IdOf(10)

\* a keypair, known by its public key
Keypair(pubkey) == [pubkey |-> pubkey]

\* solana_program::instruction::AccountMeta::new (writable) and new_readonly
AccountMeta_new(pubkey, is_signer) ==
    [pubkey |-> pubkey, is_signer |-> is_signer, is_writable |-> TRUE]
AccountMeta_new_readonly(pubkey, is_signer) ==
    [pubkey |-> pubkey, is_signer |-> is_signer, is_writable |-> FALSE]

\* solana_program::instruction::Instruction
Instruction(program_id, accounts, data) ==
    [program_id |-> program_id, accounts |-> accounts, data |-> data]

NoBuilder == [none |-> TRUE]

\* what a call on a builder yields: its Result, the builder afterwards and
\* the requests it made
Step(res, b, log) == [res |-> res, builder |-> b, log |-> log]

\* a panic of the calling thread
Panic(msg) == [ok |-> FALSE, err |-> "panic", msg |-> msg]

\* the conversion `?` applies to a ParsePubkeyError in a function that
\* returns TransactionBuilderError
TransactionBuilderError_from(e) ==
    [ok |-> FALSE, err |-> "InvalidAddress", cause |-> e.err]

\* address_to_pubkey on the text of a derived address
derived_address_to_pubkey(text) == text.text_of

\* TransactionBuilder::new(client, payer_keypair)
TransactionBuilder_new(payer_keypair) ==
    [payer_keypair |-> payer_keypair, instructions |-> <<>>, signing_keypairs |-> <<>>]

\* self.instructions.push(instruction)
push_instruction(b, instruction) ==
    [b EXCEPT !.instructions = Append(@, instruction)]

\* set_compute_limit(limit)
set_compute_limit(b, limit) ==
    Step(Ok("self"),
         push_instruction(b, Instruction(compute_budget_program, <<>>,
                                         [tag |-> "set_compute_unit_limit", units |-> limit])),
         <<>>)

\* set_compute_units(units)
set_compute_units(b, units) ==
    Step(Ok("self"),
         push_instruction(b, Instruction(compute_budget_program, <<>>,
                                         [tag |-> "set_compute_unit_price", price |-> units])),
         <<>>)

\* (amount * LAMPORTS_PER_SOL as f64) as u64
sol_to_lamports(amount) == f64_as_u64(f64_mul(amount, u64_as_f64(LAMPORTS_PER_SOL)))

\* a transfer that never keeps the keypair of the sender
transfer_sol_KeepsNoKeypair(b, amount, from_keypair, destination_address) ==
    LET destination_pubkey == address_to_pubkey(destination_address)
    IN IF ~destination_pubkey.ok
       THEN Step(TransactionBuilderError_from(destination_pubkey), b, <<>>)
       ELSE Step(Ok("self"),
                 push_instruction(b,
                     Instruction(system_program,
                                 <<AccountMeta_new(from_keypair.pubkey, TRUE),
                                   AccountMeta_new(destination_pubkey.val, FALSE)>>,
                                 [tag |-> "transfer", lamports |-> sol_to_lamports(amount)])),
                 <<>>)

\* transfer_sol(amount, from_keypair, destination_address)
transfer_sol(b, amount, from_keypair, destination_address) ==
    LET destination_pubkey == address_to_pubkey(destination_address)
    IN IF ~destination_pubkey.ok
       THEN Step(TransactionBuilderError_from(destination_pubkey), b, <<>>)
       ELSE LET instruction ==
                    Instruction(system_program,
                                <<AccountMeta_new(from_keypair.pubkey, TRUE),
                                  AccountMeta_new(destination_pubkey.val, FALSE)>>,
                                [tag |-> "transfer", lamports |-> sol_to_lamports(amount)])
                pushed == push_instruction(b, instruction)
            IN Step(Ok("self"),
                    IF from_keypair.pubkey # b.payer_keypair.pubkey
                    THEN [pushed EXCEPT !.signing_keypairs = Append(@, from_keypair)]
                    ELSE pushed,
                    <<>>)

\* spl_associated_token_account::instruction::create_associated_token_account
create_associated_token_account(funding, wallet, mint, token_program_id) ==
    Instruction(associated_token_account_program,
                <<AccountMeta_new(funding, TRUE),
                  AccountMeta_new(
                      find_program_address(
                          associated_token_seeds(wallet, token_program_id, mint),
                          associated_token_account_program), FALSE),
                  AccountMeta_new_readonly(wallet, FALSE),
                  AccountMeta_new_readonly(mint, FALSE),
                  AccountMeta_new_readonly(system_program, FALSE),
                  AccountMeta_new_readonly(token_program_id, FALSE)>>,
                [tag |-> "create"])

\* create_associated_token_account_for_payer(token_address, token_program)
create_associated_token_account_for_payer(b, token_address, token_program_id) ==
    LET payer_account == b.payer_keypair.pubkey
        token_account == address_to_pubkey(token_address)
    IN IF ~token_account.ok THEN Step(TransactionBuilderError_from(token_account), b, <<>>)
       ELSE Step(Ok("self"),
                 push_instruction(b, create_associated_token_account(
                     payer_account, payer_account, token_account.val, token_program_id)),
                 <<>>)

\* create_associated_token_account_for_others(token_address,
\* target_account_address, token_program)
create_associated_token_account_for_others(b, token_address, target_account_address, token_program_id) ==
    LET payer_account == b.payer_keypair.pubkey
        target_account == address_to_pubkey(target_account_address)
        token_account == address_to_pubkey(token_address)
    IN IF ~target_account.ok THEN Step(TransactionBuilderError_from(target_account), b, <<>>)
       ELSE IF ~token_account.ok
       THEN Step(TransactionBuilderError_from(token_account), b, <<>>)
       ELSE Step(Ok("self"),
                 push_instruction(b, create_associated_token_account(
                     payer_account, target_account.val, token_account.val, token_program_id)),
                 <<>>)

\* spl_token_2022::check_spl_token_program_account
check_spl_token_program_account(token_program_id) ==
    token_program_id \in {token_program, token_2022_program}

\* delete_associated_token_account(token_address, rent_recipient,
\* token_program)
delete_associated_token_account(b, token_address, rent_recipient, token_program_id) ==
    LET payer_account == b.payer_keypair.pubkey
        associated_token_account_address ==
            derive_associated_token_account_address(pubkey_to_string(payer_account),
                                                    token_address, token_program_id)
        rent_recipient_account == address_to_pubkey(rent_recipient)
    IN IF ~associated_token_account_address.ok
       THEN Step(TransactionBuilderError_from(associated_token_account_address), b, <<>>)
       ELSE IF ~rent_recipient_account.ok
       THEN Step(TransactionBuilderError_from(rent_recipient_account), b, <<>>)
       ELSE IF ~check_spl_token_program_account(token_program_id)
       THEN Step(Err("InstructionError"), b, <<>>)
       ELSE Step(Ok("self"),
                 push_instruction(b, Instruction(token_program_id,
                     <<AccountMeta_new(
                           derived_address_to_pubkey(associated_token_account_address.val),
                           FALSE),
                       AccountMeta_new(rent_recipient_account.val, FALSE),
                       AccountMeta_new_readonly(payer_account, TRUE)>>,
                     [tag |-> "close_account"])),
                 <<>>)

\* burn_tokens(token_address, amount, token_program)
burn_tokens(b, token_address, amount, token_program_id) ==
    LET payer_account == b.payer_keypair.pubkey
        associated_token_account_address ==
            derive_associated_token_account_address(pubkey_to_string(payer_account),
                                                    token_address, token_program_id)
        token_account == address_to_pubkey(token_address)
    IN IF ~associated_token_account_address.ok
       THEN Step(TransactionBuilderError_from(associated_token_account_address), b, <<>>)
       ELSE IF ~token_account.ok
       THEN Step(TransactionBuilderError_from(token_account), b, <<>>)
       ELSE IF ~check_spl_token_program_account(token_program_id)
       THEN Step(Err("InstructionError"), b, <<>>)
       ELSE Step(Ok("self"),
                 push_instruction(b, Instruction(token_program_id,
                     <<AccountMeta_new(
                           derived_address_to_pubkey(associated_token_account_address.val),
                           FALSE),
                       AccountMeta_new(token_account.val, FALSE),
                       AccountMeta_new_readonly(payer_account, TRUE)>>,
                     [tag |-> "burn", amount |-> amount])),
                 <<>>)

\* RpcClient::get_latest_blockhash
client_get_latest_blockhash(latest_blockhash, fail) ==
    IF fail THEN Err("Transport") ELSE Ok(latest_blockhash)

\* Transaction::new_with_payer(&self.instructions, Some(&payer)), unsigned
Transaction_new_with_payer(instructions, payer) ==
    [message |-> [payer |-> payer, instructions |-> instructions],
     recent_blockhash |-> "none",
     signers |-> <<>>,
     signatures |-> {}]

\* transaction.sign(&all_keypairs, recent_blockhash): signers is the list
\* of keys handed to sign, signatures what the transaction then carries
Transaction_sign(transaction, all_keypairs, recent_blockhash) ==
    [transaction EXCEPT
        !.recent_blockhash = recent_blockhash,
        !.signers = all_keypairs,
        !.signatures = {[by |-> k.pubkey, over |-> recent_blockhash] : k \in Range(all_keypairs)}]

\* a build that hands its instructions over to the transaction
build_TakesInstructions(b, latest_blockhash, fail) ==
    LET transaction == Transaction_new_with_payer(b.instructions, b.payer_keypair.pubkey)
        recent_blockhash == client_get_latest_blockhash(latest_blockhash, fail)
        log == <<Req("get_latest_blockhash", <<>>, recent_blockhash.ok)>>
        all_keypairs == <<b.payer_keypair>> \o b.signing_keypairs
    IN IF ~recent_blockhash.ok THEN Step(Err("LatestBlockhashError"), b, log)
       ELSE Step(Ok(Transaction_sign(transaction, all_keypairs, recent_blockhash.val)),
                 [b EXCEPT !.instructions = <<>>], log)

\* build(&self)
build(b, latest_blockhash, fail) ==
    LET transaction == Transaction_new_with_payer(b.instructions, b.payer_keypair.pubkey)
        recent_blockhash == client_get_latest_blockhash(latest_blockhash, fail)
        log == <<Req("get_latest_blockhash", <<>>, recent_blockhash.ok)>>
        all_keypairs == <<b.payer_keypair>> \o b.signing_keypairs
    IN IF ~recent_blockhash.ok THEN Step(Err("LatestBlockhashError"), b, log)
       ELSE Step(Ok(Transaction_sign(transaction, all_keypairs, recent_blockhash.val)),
                 b, log)

(***************************************************************************)
(* The Pump.fun bump (pumpfun/bonding_curve.rs, write_transactions/        *)
(* pumpfun.rs).                                                            *)
(***************************************************************************)
pumpfun_global_account == IdOf(11)
pumpfun_fee_account == IdOf(12)
pumpfun_event_authority_account == IdOf(13)
rent_program == IdOf(14)

\* Option
None == [none |-> TRUE]
Some(v) == [some |-> v]

\* the data of an account that holds the bonding curve c
CurveData(c) ==
    [len |-> "curve", init |-> FALSE, pack |-> NoPack, borsh |-> NoMeta, curve |-> c]

\* BondingCurveAccount::deserialize(&mut account_data.as_slice())
BondingCurveAccount_deserialize(data) ==
    IF data.len = "curve" THEN Ok(data.curve) ELSE Err("io")

\* seeds [b"bonding-curve", token_account] under pumpfun_program()
bonding_curve_pubkey_of(token_account) ==
    find_program_address(Seeds("bonding-curve", <<token_account>>), pumpfun_program)

\* get_bonding_curve_address(token_address)
get_bonding_curve_address(token_address) ==
    LET token_account == address_to_pubkey(token_address)
    IN IF ~token_account.ok THEN InvalidAddress(token_account)
       ELSE Ok(derived_to_string(bonding_curve_pubkey_of(token_account.val)))

\* RpcClient::get_account_data: get_account, then the data of the account
client_get_account_data(ch, pk, fail) ==
    LET account == client_get_account(ch, pk, fail)
    IN IF account.ok THEN Ok(account.val.data) ELSE account

\* get_bonding_curve_account(client, token_address): None for an address
\* that does not parse, a request that fails and data that do not decode;
\* nth is the number of the request among those of the calling operation
get_bonding_curve_account(token_address, ch, fails, nth) ==
    LET bonding_curve_address == get_bonding_curve_address(token_address)
    IN IF ~bonding_curve_address.ok THEN Outcome(None, <<>>)
       ELSE LET bonding_curve_account ==
                    derived_address_to_pubkey(bonding_curve_address.val)
                account_data == client_get_account_data(ch, bonding_curve_account,
                                                        nth \in fails)
                log == <<Req("get_account_data", <<bonding_curve_account>>, account_data.ok)>>
            IN IF ~account_data.ok THEN Outcome(None, log)
               ELSE LET bonding_curve_data == BondingCurveAccount_deserialize(account_data.val)
                    IN IF ~bonding_curve_data.ok THEN Outcome(None, log)
                       ELSE Outcome(Some([pubkey |-> bonding_curve_account,
                                          curve |-> bonding_curve_data.val]), log)

\* lines 56-85: the accounts of the buy and of the sell instruction
buy_accounts(token_account, bonding_curve_account, associated_bonding_curve_account, associated_user_account, user_account) ==
    <<AccountMeta_new_readonly(pumpfun_global_account, FALSE),
      AccountMeta_new(pumpfun_fee_account, FALSE),
      AccountMeta_new_readonly(token_account, FALSE),
      AccountMeta_new(bonding_curve_account, FALSE),
      AccountMeta_new(associated_bonding_curve_account, FALSE),
      AccountMeta_new(associated_user_account, FALSE),
      AccountMeta_new(user_account, TRUE),
      AccountMeta_new_readonly(system_program, FALSE),
      AccountMeta_new_readonly(token_program, FALSE),
      AccountMeta_new_readonly(rent_program, FALSE),
      AccountMeta_new_readonly(pumpfun_event_authority_account, FALSE),
      AccountMeta_new_readonly(pumpfun_program, FALSE)>>

sell_accounts(token_account, bonding_curve_account, associated_bonding_curve_account, associated_user_account, user_account) ==
    <<AccountMeta_new_readonly(pumpfun_global_account, FALSE),
      AccountMeta_new(pumpfun_fee_account, FALSE),
      AccountMeta_new_readonly(token_account, FALSE),
      AccountMeta_new(bonding_curve_account, FALSE),
      AccountMeta_new(associated_bonding_curve_account, FALSE),
      AccountMeta_new(associated_user_account, FALSE),
      AccountMeta_new(user_account, TRUE),
      AccountMeta_new_readonly(system_program, FALSE),
      AccountMeta_new_readonly(associated_token_account_program, FALSE),
      AccountMeta_new_readonly(token_program, FALSE),
      AccountMeta_new_readonly(pumpfun_event_authority_account, FALSE),
      AccountMeta_new_readonly(pumpfun_program, FALSE)>>

\* constants.rs: the opcodes of the Pump.fun buy and sell instructions
buy_instruction_data == <<102, 6, 61, 18, 1, 218, 235, 234>>
sell_instruction_data == <<51, 230, 133, 164, 1, 127, 131, 173>>

\* constants.rs: pub const PUMP_TOKEN_DECIMALS: u32 = 6
PUMP_TOKEN_DECIMALS == 6

\* a bump whose two u64 values are written highest byte first
push_buy_and_sell_BigEndian(b, max_sol_cost, bonding_state, buy_keys, sell_keys, log) ==
    LET cost_per_token == calculate_token_price(bonding_state)
        amount == f64_mul(f64_div(max_sol_cost, cost_per_token.val), F64(8, 1, -1))
        multiplier == U64(1, PUMP_TOKEN_DECIMALS)
        amount_in_decimals ==
            f64_as_u64(f64_round(f64_mul(amount, u64_as_f64(multiplier))))
        max_sol_cost_in_lamports == sol_to_lamports(max_sol_cost)
        buy_instruction ==
            Instruction(pumpfun_program, buy_keys,
                        [tag |-> "bytes",
                         bytes |-> buy_instruction_data \o to_be_bytes(amount_in_decimals)
                                     \o to_be_bytes(max_sol_cost_in_lamports)])
        sell_instruction ==
            Instruction(pumpfun_program, sell_keys,
                        [tag |-> "bytes",
                         bytes |-> sell_instruction_data \o to_be_bytes(amount_in_decimals)
                                     \o to_be_bytes(U64(0, 0))])
    IN IF ~cost_per_token.ok
       THEN Step([ok |-> FALSE, err |-> "BlockchainQueryError", cause |-> cost_per_token.err],
                 b, log)
       ELSE Step(Ok("self"),
                 push_instruction(push_instruction(b, buy_instruction), sell_instruction),
                 log)

\* pumpfun.rs lines 86-117: the price, the token amount (80% of what
\* max_sol_cost buys, in units of 10^-6 token, rounded), the two payloads and
\* the two pushes
push_buy_and_sell(b, max_sol_cost, bonding_state, buy_keys, sell_keys, log) ==
    LET cost_per_token == calculate_token_price(bonding_state)
        amount == f64_mul(f64_div(max_sol_cost, cost_per_token.val), F64(8, 1, -1))
        multiplier == U64(1, PUMP_TOKEN_DECIMALS)
        amount_in_decimals ==
            f64_as_u64(f64_round(f64_mul(amount, u64_as_f64(multiplier))))
        max_sol_cost_in_lamports == sol_to_lamports(max_sol_cost)
        buy_instruction ==
            Instruction(pumpfun_program, buy_keys,
                        [tag |-> "bytes",
                         bytes |-> buy_instruction_data \o to_le_bytes(amount_in_decimals)
                                     \o to_le_bytes(max_sol_cost_in_lamports)])
        sell_instruction ==
            Instruction(pumpfun_program, sell_keys,
                        [tag |-> "bytes",
                         bytes |-> sell_instruction_data \o to_le_bytes(amount_in_decimals)
                                     \o to_le_bytes(U64(0, 0))])
    IN IF ~cost_per_token.ok
       THEN Step([ok |-> FALSE, err |-> "BlockchainQueryError", cause |-> cost_per_token.err],
                 b, log)
       ELSE Step(Ok("self"),
                 push_instruction(push_instruction(b, buy_instruction), sell_instruction),
                 log)

\* the associated token address of a wallet given as a public key (its text
\* parses back to it)
associated_token_account_of(wallet, token_program_id, mint) ==
    find_program_address(associated_token_seeds(wallet, token_program_id, mint),
                         associated_token_account_program)

\* bump_pumpfun_token(token_address, max_sol_cost): the bonding-curve fetch
\* is unwrapped with expect, so a None panics
bump_pumpfun_token(b, token_address, max_sol_cost, ch, fails) ==
    LET token_account == address_to_pubkey(token_address)
        user_account == b.payer_keypair.pubkey
    IN IF ~token_account.ok THEN Step(TransactionBuilderError_from(token_account), b, <<>>)
       ELSE LET associated_user_account ==
                    associated_token_account_of(user_account, token_program, token_account.val)
                fetched == get_bonding_curve_account(token_address, ch, fails, 1)
            IN IF fetched.res = None
               THEN Step(Panic("Unable to get bonding curve addresses. Please try again"),
                         b, fetched.log)
               ELSE LET bonding_curve_account == fetched.res.some.pubkey
                        associated_bonding_curve_account ==
                            associated_token_account_of(bonding_curve_account, token_program,
                                                        token_account.val)
                    IN push_buy_and_sell(b, max_sol_cost, fetched.res.some.curve,
                           buy_accounts(token_account.val, bonding_curve_account,
                                        associated_bonding_curve_account,
                                        associated_user_account, user_account),
                           sell_accounts(token_account.val, bonding_curve_account,
                                         associated_bonding_curve_account,
                                         associated_user_account, user_account),
                           fetched.log)

(***************************************************************************)
(* read_transactions/associated_token_account.rs and mint_account.rs: the  *)
(* typed single readers.                                                   *)
(***************************************************************************)
\* a reader that pairs a token account with an empty mint when the payload of
\* its mint does not decode
rt_get_associated_token_account_DefaultMint(address, ch, fails) ==
    LET p == address_to_pubkey(address)
        d == client_get_account_data(ch, p.val, 1 \in fails)
        log1 == <<Req("get_account", <<p.val>>, d.ok)>>
        t == SplTokenAccount_unpack(d.val)
        m == client_get_account(ch, t.val.mint, 2 \in fails)
        log2 == log1 \o <<Req("get_account", <<t.val.mint>>, m.ok)>>
        mint == SplMintAccount_unpack(m.val.data)
    IN IF ~p.ok THEN Outcome(InvalidAddress(p), <<>>)
       ELSE IF ~d.ok THEN Outcome(From_RpcClientError(d), log1)
       ELSE IF ~t.ok THEN Outcome(Err("DeserializeError"), log1)
       ELSE IF ~m.ok THEN Outcome(From_RpcClientError(m), log2)
       ELSE Outcome(Ok(AssociatedTokenAccount(pubkey_to_string(p.val),
                           pubkey_to_string(t.val.owner), pubkey_to_string(t.val.mint),
                           IF mint.ok THEN mint.val ELSE MintPack(0, 0),
                           t.val.amount, pubkey_to_string(m.val.owner))),
                    log2)

\* get_associated_token_account(client, associated_token_account_address):
\* each step returns at its first error
rt_get_associated_token_account(address, ch, fails) ==
    LET p == address_to_pubkey(address)
        d == client_get_account_data(ch, p.val, 1 \in fails)
        log1 == <<Req("get_account", <<p.val>>, d.ok)>>
        t == SplTokenAccount_unpack(d.val)
        m == client_get_account(ch, t.val.mint, 2 \in fails)
        log2 == log1 \o <<Req("get_account", <<t.val.mint>>, m.ok)>>
        mint == SplMintAccount_unpack(m.val.data)
    IN IF ~p.ok THEN Outcome(InvalidAddress(p), <<>>)
       ELSE IF ~d.ok THEN Outcome(From_RpcClientError(d), log1)
       ELSE IF ~t.ok THEN Outcome(Err("DeserializeError"), log1)
       ELSE IF ~m.ok THEN Outcome(From_RpcClientError(m), log2)
       ELSE IF ~mint.ok THEN Outcome(Err("DeserializeError"), log2)
       ELSE Outcome(Ok(AssociatedTokenAccount(pubkey_to_string(p.val),
                           pubkey_to_string(t.val.owner), pubkey_to_string(t.val.mint),
                           mint.val, t.val.amount, pubkey_to_string(m.val.owner))),
                    log2)

\* get_mint_account(client, token_address)
rt_get_mint_account(token_address, ch, fails) ==
    LET p == address_to_pubkey(token_address)
        r == client_get_account(ch, p.val, 1 \in fails)
        log == <<Req("get_account", <<p.val>>, r.ok)>>
        mint == SplMintAccount_unpack(r.val.data)
    IN IF ~p.ok THEN Outcome(InvalidAddress(p), <<>>)
       ELSE IF ~r.ok THEN Outcome(From_RpcClientError(r), log)
       ELSE IF ~mint.ok THEN Outcome(Err("DeserializeError"), log)
       ELSE Outcome(Ok(mint.val), log)

(***************************************************************************)
(* Simulation (write_transactions/utils.rs).                               *)
(***************************************************************************)
\* RpcSimulateTransactionResult: every field is an Option
RpcSimulateTransactionResult(err, logs, units_consumed, inner_instructions) ==
    [err |-> err, logs |-> logs, units_consumed |-> units_consumed,
     inner_instructions |-> inner_instructions]

\* UiInstruction::Compiled, UiInstruction::Parsed(PartiallyDecoded) and
\* UiInstruction::Parsed(Parsed)
UiCompiled == [ui |-> "compiled"]
UiPartiallyDecoded == [ui |-> "partially_decoded"]
UiParsed(program, program_id, parsed) ==
    [ui |-> "parsed", program |-> program, program_id |-> program_id, parsed |-> parsed]

ParsedInstruction(program, program_id, info) ==
    [program |-> program, program_id |-> program_id, info |-> info]

\* lines 64-81: Some for a parsed instruction whose value is an object with
\* an object member "info", None for every other instruction
parse_ui_instruction(instruction) ==
    IF /\ instruction.ui = "parsed"
       /\ instruction.parsed.j = "obj"
       /\ "info" \in DOMAIN instruction.parsed.v
       /\ instruction.parsed.v["info"].j = "obj"
    THEN <<ParsedInstruction(instruction.program, instruction.program_id,
                             instruction.parsed.v["info"].v)>>
    ELSE <<>>

RECURSIVE filter_map_instructions(_)
\* instructions.iter().filter_map(..)
filter_map_instructions(instructions) ==
    IF instructions = <<>> THEN <<>>
    ELSE parse_ui_instruction(Head(instructions))
         \o filter_map_instructions(Tail(instructions))

RECURSIVE flat_map_inner_instructions_LastGroupFirst(_)
\* a flattening that puts the instructions of a later group in front
flat_map_inner_instructions_LastGroupFirst(inner_instructions) ==
    IF inner_instructions = <<>> THEN <<>>
    ELSE flat_map_inner_instructions_LastGroupFirst(Tail(inner_instructions))
         \o filter_map_instructions(Head(inner_instructions).instructions)

RECURSIVE flat_map_inner_instructions(_)
\* inner_instructions.iter().flat_map(..).collect()
flat_map_inner_instructions(inner_instructions) ==
    IF inner_instructions = <<>> THEN <<>>
    ELSE filter_map_instructions(Head(inner_instructions).instructions)
         \o flat_map_inner_instructions(Tail(inner_instructions))

\* units_consumed as u32: the value modulo the number of values of a u32
u64_as_u32(x) == x % U32Values

SimulationResult(transaction_logs, units_consumed, instructions, error) ==
    [transaction_logs |-> transaction_logs, units_consumed |-> units_consumed,
     instructions |-> instructions, error |-> error]

\* a parse that takes absent logs for no logs
parse_simulation_result_DefaultLogs(simulation_result) ==
    LET logs == IF simulation_result.logs = None THEN <<>>
                ELSE simulation_result.logs.some
    IN IF simulation_result.units_consumed = None THEN Err("NoUnitsConsumedAvailable")
       ELSE IF simulation_result.inner_instructions = None
       THEN Err("NoInnerInstructionsAvailable")
       ELSE Ok(SimulationResult(
                   logs,
                   u64_as_u32(simulation_result.units_consumed.some),
                   flat_map_inner_instructions(simulation_result.inner_instructions.some),
                   simulation_result.err))

\* parse_simulation_result(simulation_result)
parse_simulation_result(simulation_result) ==
    IF simulation_result.logs = None THEN Err("NoLogsAvailable")
    ELSE IF simulation_result.units_consumed = None THEN Err("NoUnitsConsumedAvailable")
    ELSE IF simulation_result.inner_instructions = None
    THEN Err("NoInnerInstructionsAvailable")
    ELSE Ok(SimulationResult(
                simulation_result.logs.some,
                u64_as_u32(simulation_result.units_consumed.some),
                flat_map_inner_instructions(simulation_result.inner_instructions.some),
                simulation_result.err))

\* simulate_transaction(client, transaction): response is what the provider
\* answers when the request goes through
simulate_transaction(response, fail) ==
    LET log == <<Req("simulate_transaction", <<>>, ~fail)>>
    IN IF fail THEN Outcome(Err("RpcClientError"), log)
       ELSE Outcome(parse_simulation_result(response), log)

(***************************************************************************)
(* utils.rs: generate_keypair.  The call validates the two patterns and    *)
(* then loops; one turn of the loop draws a keypair and compares its       *)
(* address with the patterns.  attempts is the counter of the loop, a u64  *)
(* that wraps (U64Attempts values here).                                   *)
(***************************************************************************)
\* valid_chars_regex.is_match(text) for ^[1-9A-HJ-NP-Za-km-z]*$
valid_chars_regex_is_match(text) ==
    \A i \in 1..Len(text) : text[i] \in Range(Alphabet)

\* str::starts_with and str::ends_with
str_starts_with(s, prefix) ==
    Len(prefix) <= Len(s) /\ SubSeq(s, 1, Len(prefix)) = prefix
str_ends_with(s, suffix) ==
    Len(suffix) <= Len(s) /\ SubSeq(s, Len(s) - Len(suffix) + 1, Len(s)) = suffix

\* a validation that looks at starts_with alone
validate_patterns_PrefixOnly(starts_with, ends_with) ==
    IF starts_with # None /\ ~valid_chars_regex_is_match(starts_with.some)
    THEN Err("InvalidPattern")
    ELSE Ok("valid")

\* lines 23-34: the two patterns are validated before the loop
validate_patterns(starts_with, ends_with) ==
    IF starts_with # None /\ ~valid_chars_regex_is_match(starts_with.some)
    THEN Err("InvalidPattern")
    ELSE IF ends_with # None /\ ~valid_chars_regex_is_match(ends_with.some)
    THEN Err("InvalidPattern")
    ELSE Ok("valid")

\* lines 45-48: starts_with_match && ends_with_match for the keypair drawn
keypair_matches(keypair, starts_with, ends_with) ==
    LET public_address == pubkey_to_string(keypair.pubkey)
        starts_with_match ==
            IF starts_with = None THEN TRUE
            ELSE str_starts_with(public_address, starts_with.some)
        ends_with_match ==
            IF ends_with = None THEN TRUE
            ELSE str_ends_with(public_address, ends_with.some)
    IN starts_with_match /\ ends_with_match

\* attempts += 1 on a u64
next_attempts(n) == (n + 1) % U64Attempts

(***************************************************************************)
(* The inputs the calls are explored on.                                   *)
(***************************************************************************)
TextA == pubkey_to_string(AddrA)
TextB == pubkey_to_string(AddrB)
BadText == <<BadChar>>
ShortText == <<Alphabet[2]>>

MintC == AddrC
MintD == IdOf(7)

SingleAddrTexts == {TextA, BadText}
BatchAddrTexts == {TextA, TextB, BadText}
CodecBatchTexts ==
    {TextA, TextB, pubkey_to_string(system_program), BadText, ShortText, <<>>}

Owners == {system_program, token_program, token_2022_program, metadata_program}

PaddedA == <<"a", NUL>>
PaddedB == <<" ", NUL>>

\* the metadata a Borsh read finds at the head of a packed mint or token
\* payload: too short for anything but empty strings
HeadMeta == MetaRec(AddrB, <<>>, <<>>, <<>>)

\* every string in one field, two fixed padded strings in the other two
RichMetas ==
    UNION {{MetaRec(AddrA, s, PaddedA, PaddedB),
            MetaRec(AddrA, PaddedA, s, PaddedB),
            MetaRec(AddrA, PaddedB, PaddedA, s)} : s \in Strs}

\* the metadata stored for mint m: strings that differ per mint and field
MetaFor(m) ==
    IF m = AddrA
    THEN MetaRec(m, <<"a", NUL>>, <<"a">>, <<" ", NUL>>)
    ELSE MetaRec(m, <<" ", "a">>, <<NUL>>, <<"a", " ">>)

TokenData(init, borsh) == Payload("token", init, TokenPack(MintC, AddrA, 5), borsh)
MintData(init, borsh) == Payload("mint", init, MintPack(100, 6), borsh)
OtherData(borsh) == Payload("other", FALSE, NoPack, borsh)

Payloads ==
    {EmptyData}
    \cup {TokenData(i, b) : i \in BOOLEAN, b \in {NoMeta, HeadMeta}}
    \cup {MintData(i, b) : i \in BOOLEAN, b \in {NoMeta, HeadMeta}}
    \cup {OtherData(b) : b \in {NoMeta, MetaFor(AddrA), MetaFor(AddrB)}}

AllAccounts ==
    {RawAccount(1, o, e, d) : o \in Owners, e \in BOOLEAN, d \in Payloads}

RichMetaAccounts ==
    {RawAccount(1, metadata_program, FALSE, OtherData(m)) : m \in RichMetas}

\* the accounts the batch calls are explored on: every variant, and payloads
\* that decode under an owner or a flag that overrides them
BatchAccounts ==
    {RawAccount(2, token_program, TRUE, TokenData(TRUE, NoMeta)),
     RawAccount(2, system_program, TRUE, MintData(TRUE, NoMeta)),
     RawAccount(3, system_program, FALSE, TokenData(TRUE, NoMeta)),
     RawAccount(3, system_program, FALSE, OtherData(MetaFor(AddrA))),
     RawAccount(1, token_program, FALSE, TokenData(TRUE, NoMeta)),
     RawAccount(1, token_program, FALSE, MintData(TRUE, HeadMeta)),
     RawAccount(1, token_2022_program, FALSE, TokenData(TRUE, HeadMeta)),
     RawAccount(1, token_2022_program, FALSE, MintData(TRUE, NoMeta)),
     RawAccount(1, metadata_program, FALSE, OtherData(MetaFor(AddrA))),
     RawAccount(1, metadata_program, FALSE, OtherData(NoMeta)),
     RawAccount(1, token_program, FALSE, OtherData(NoMeta)),
     RawAccount(1, token_program, FALSE, MintData(FALSE, NoMeta))}

GarbageAccount == RawAccount(1, metadata_program, FALSE, OtherData(NoMeta))

\* what may sit at the metadata address derived for mint m
MetaSlotChoices(m) ==
    {NoAccount, GarbageAccount,
     RawAccount(1, metadata_program, FALSE, OtherData(MetaFor(m)))}

\* token accounts of mint MintC and of mint MintD, and what may sit at a mint
TokenOf(mint, amount) ==
    RawAccount(1, token_program, FALSE,
               Payload("token", TRUE, TokenPack(mint, AddrA, amount), NoMeta))
TokenSlotChoices ==
    {NoAccount, TokenOf(MintC, 5), TokenOf(MintD, 7),
     RawAccount(1, token_program, FALSE, OtherData(NoMeta))}
MintSlotChoices(supply, owner) ==
    {NoAccount,
     RawAccount(1, owner, FALSE, Payload("mint", TRUE, MintPack(supply, 6), NoMeta)),
     RawAccount(1, owner, FALSE, OtherData(NoMeta))}

FailsFirst == {{}, {1}}
FailsAny == SUBSET {1, 2}

\* what a call observes of its environment: the accounts on chain, the
\* provider's answer to get_token_accounts_by_owner, and the numbers of the
\* requests at which the transport fails
Chain(accounts, by_owner, transport_fails) ==
    [accounts |-> accounts, by_owner |-> by_owner, transport_fails |-> transport_fails]
NoChain == Chain(<<>>, <<>>, {})

\* the snapshots that hold an account, or none, at AddrA and at AddrB
AddrChains(S) ==
    {(AddrA :> a) @@ (AddrB :> b) : a \in S \cup {NoAccount}, b \in S \cup {NoAccount}}

MetaChains ==
    {(metadata_pubkey_of(AddrA) :> a) @@ (metadata_pubkey_of(AddrB) :> b) :
        a \in MetaSlotChoices(AddrA), b \in MetaSlotChoices(AddrB)}

MintChains ==
    {(MintC :> c) @@ (MintD :> d) :
        c \in MintSlotChoices(100, token_program),
        d \in MintSlotChoices(200, token_2022_program)}

PubkeyLists == SeqsUpTo({AddrA, AddrB}, MaxBatch)
AddrTextLists == SeqsUpTo(BatchAddrTexts, MaxBatch)

\* the reserves the price is explored on: m * 10^e for small m, with the
\* exponents of a lamport, a token unit, a SOL and the reserves of a fresh curve
ReserveExponents == {0, 6, 9, 10, 13}
Reserves == {U64(m, e) : m \in 0..MaxMantissa, e \in ReserveExponents}
OtherReserves == {U64(0, 0), U64(7, 5)}
CurveStates ==
    {BondingCurveAccount(vtok, vsol, rtok, rsol, supply, complete) :
        vtok \in Reserves, vsol \in Reserves, rtok \in OtherReserves,
        rsol \in OtherReserves, supply \in {U64(1, 15)}, complete \in BOOLEAN}

\* the texts the derivations are explored on, and the wallet-to-mints maps
TextC == pubkey_to_string(MintC)
DeriveTexts == {TextA, TextC, BadText, ShortText}
DerivePrograms == {token_program, token_2022_program}
WalletTexts == {TextA, TextB, BadText}
MintTextLists == SeqsUpTo({TextC, BadText}, MaxBatch)
WalletToMints == UNION {[ws -> MintTextLists] : ws \in SUBSET WalletTexts}
\* the orders in which a map may yield its keys
KeyOrders(m) ==
    {o \in [1..Cardinality(DOMAIN m) -> DOMAIN m] : Range(o) = DOMAIN m}
\* what a derivation could see of the chain if it looked
DeriveEnvs == {Chain((AddrA :> a), <<>>, f) : a \in {NoAccount, GarbageAccount}, f \in FailsFirst}

\* the keypairs, block hashes and bonding-curve accounts the builder is
\* explored on
PayerKeypair == Keypair(AddrA)
OtherKeypair == Keypair(AddrB)
Blockhashes == {"h1", "h2"}
OneSol == F64(1, 1, 0)
FreshCurve ==
    BondingCurveAccount(U64(3, 13), U64(3, 10), U64(2, 13), U64(0, 0), U64(1, 15), FALSE)
DrainedCurve ==
    BondingCurveAccount(U64(0, 0), U64(0, 0), U64(0, 0), U64(0, 0), U64(1, 15), TRUE)
CurveAccount(c) == RawAccount(1, pumpfun_program, FALSE, CurveData(c))
\* a curve on which the amount a bump buys is no whole number
OddCurve ==
    BondingCurveAccount(U64(7, 13), U64(3, 10), U64(2, 13), U64(0, 0), U64(1, 15), FALSE)
CurveSlotChoices ==
    {NoAccount, GarbageAccount, CurveAccount(FreshCurve), CurveAccount(OddCurve),
     CurveAccount(DrainedCurve)}
\* the costs a bump is explored on: a whole number of lamports and one and a
\* half lamports
MicroSol == F64(1, 1, -6)
OneAndAHalfLamports == F64(15, 1, -10)
\* what a builder call observes: the chain, the latest block hash and the
\* requests at which the transport fails
BuilderEnv(accounts, latest_blockhash, transport_fails) ==
    [accounts |-> accounts, by_owner |-> <<>>, transport_fails |-> transport_fails,
     latest_blockhash |-> latest_blockhash]
NoEnv == BuilderEnv(<<>>, "h1", {})
\* a bump on every account the bonding-curve address may hold, on a
\* transport that fails, and on a token address that does not parse
BumpChoices ==
    {<<TextC, a, {}, MicroSol>> : a \in CurveSlotChoices}
    \cup {<<TextC, CurveAccount(FreshCurve), {1}, MicroSol>>,
          <<BadText, NoAccount, {}, MicroSol>>,
          <<TextC, CurveAccount(OddCurve), {}, OneAndAHalfLamports>>}
\* a build under either block hash, and on a transport that fails
BuildChoices == {<<h, {}>> : h \in Blockhashes} \cup {<<"h1", {1}>>}

\* the provider responses the simulation is explored on
InfoObject == JObj([info |-> JObj([lamports |-> JStr(<<"5">>)])])
OtherInfoObject == JObj([info |-> JObj([amount |-> JStr(<<"7">>)]), type |-> JStr(<<"a">>)])
InstructionChoices ==
    {UiCompiled, UiPartiallyDecoded,
     UiParsed("system", system_program, InfoObject),
     UiParsed("spl-token", token_program, JObj([info |-> JStr(<<"5">>)])),
     UiParsed("spl-token", token_program, JObj([type |-> JStr(<<"a">>)])),
     UiParsed("system", system_program, JNull)}
InnerInstructionChoices ==
    {None, Some(<<>>)}
    \cup {Some(<<[instructions |-> <<i>>]>>) : i \in InstructionChoices}
    \cup {Some(<<[instructions |-> <<UiCompiled, UiParsed("system", system_program, InfoObject)>>],
                 [instructions |-> <<UiParsed("system", system_program, InfoObject)>>]>>),
          Some(<<[instructions |-> <<UiParsed("spl-token", token_program, OtherInfoObject),
                                     UiPartiallyDecoded,
                                     UiParsed("system", system_program, InfoObject)>>],
                 [instructions |-> <<UiParsed("spl-token", token_program, JNull)>>],
                 [instructions |-> <<UiParsed("spl-token", token_2022_program, InfoObject),
                                     UiCompiled>>]>>)}
SimulationResponses ==
    {RpcSimulateTransactionResult(err, logs, units_consumed, inner_instructions) :
        err \in {None, Some("InstructionError")},
        logs \in {None, Some(<<>>), Some(<<"Program log: a">>),
                  Some(<<"Program log: b", "Program log: a">>)},
        units_consumed \in {None, Some(0), Some(U32Values + 4)},
        inner_instructions \in InnerInstructionChoices}
SimulationEnv(response, transport_fails) ==
    [accounts |-> <<>>, by_owner |-> <<>>, transport_fails |-> transport_fails,
     simulation |-> response]

\* the length of the longest address (44 in the program)
LongestAddressLen ==
    CHOOSE n \in 0..(IdLen * ByteBase) :
        /\ \E pk \in Pubkeys : Len(pubkey_to_string(pk)) = n
        /\ \A pk \in Pubkeys : Len(pubkey_to_string(pk)) <= n

\* the patterns generate_keypair is explored on: every text of up to
\* MaxPatternLen characters, and a valid one longer than every address
PatternTexts ==
    SeqsUpTo(TextChars, MaxPatternLen)
    \cup {Repeat(Alphabet[2], LongestAddressLen + 1)}
PatternOptions == {None} \cup {Some(p) : p \in PatternTexts}

(***************************************************************************)
(* State machine: one call per behaviour.                                  *)
(***************************************************************************)
Init ==
    /\ pc = "idle"
    /\ op = "none"
    /\ args = <<>>
    /\ chain = NoChain
    /\ rpcLog = <<>>
    /\ result = Err("none")
    /\ builder = NoBuilder
    /\ built = <<>>
    /\ attempts = 0

Return(name, a, ch, out) ==
    /\ pc' = "done"
    /\ op' = name
    /\ args' = a
    /\ chain' = ch
    /\ rpcLog' = out.log
    /\ result' = out.res
    /\ UNCHANGED <<builder, built, attempts>>

\* address_to_pubkey on an arbitrary text
ParseOne ==
    /\ pc = "idle"
    /\ \E t \in Texts :
        Return("address_to_pubkey", <<t>>, NoChain, Outcome(address_to_pubkey(t), <<>>))

\* address_to_pubkey on the textual form of an identifier
RoundTrip ==
    /\ pc = "idle"
    /\ \E id \in Pubkeys :
        Return("round_trip", <<id>>, NoChain,
               Outcome(address_to_pubkey(pubkey_to_string(id)), <<>>))

\* addresses_to_pubkeys on a list of texts
ParseMany ==
    /\ pc = "idle"
    /\ \E ts \in SeqsUpTo(CodecBatchTexts, MaxBatch) :
        Return("addresses_to_pubkeys", ts, NoChain,
               Outcome(Ok(addresses_to_pubkeys(ts)), <<>>))

GetAccount ==
    /\ pc = "idle"
    /\ \E t \in SingleAddrTexts, a \in AllAccounts \cup RichMetaAccounts \cup {NoAccount},
          f \in FailsFirst :
        LET ch == (AddrA :> a)
        IN Return("get_account", <<t>>, Chain(ch, <<>>, f), rt_get_account(t, ch, f))

GetMultipleAccounts ==
    /\ pc = "idle"
    /\ \E ts \in AddrTextLists, ch \in AddrChains(BatchAccounts), f \in FailsFirst :
        Return("get_multiple_accounts", ts, Chain(ch, <<>>, f),
               rt_get_multiple_accounts(ts, ch, f))

GetEasySolanaAccount ==
    /\ pc = "idle"
    /\ \E a \in AllAccounts \cup {NoAccount}, m \in MetaSlotChoices(AddrA), f \in FailsAny :
        LET ch == (AddrA :> a) @@ (metadata_pubkey_of(AddrA) :> m)
        IN Return("get_easy_solana_account", <<AddrA>>, Chain(ch, <<>>, f),
                  easy_get_easy_solana_account(AddrA, ch, f))

GetEasySolanaAccounts ==
    /\ pc = "idle"
    /\ \E pks \in PubkeyLists, ch \in AddrChains(BatchAccounts), mch \in MetaChains,
          f \in FailsAny :
        Return("get_easy_solana_accounts", pks, Chain(ch @@ mch, <<>>, f),
               easy_get_easy_solana_accounts(pks, ch @@ mch, f))

EsaGetAccount ==
    /\ pc = "idle"
    /\ \E t \in SingleAddrTexts, a \in AllAccounts \cup {NoAccount}, f \in FailsFirst :
        LET ch == (AddrA :> a)
        IN Return("esa_get_account", <<t>>, Chain(ch, <<>>, f), esa_get_account(t, ch, f))

EsaGetMultipleAccounts ==
    /\ pc = "idle"
    /\ \E ts \in AddrTextLists, ch \in AddrChains(BatchAccounts), f \in FailsFirst :
        Return("esa_get_multiple_accounts", ts, Chain(ch, <<>>, f),
               esa_get_multiple_accounts(ts, ch, f))

ReaderGetEasySolanaAccounts ==
    /\ pc = "idle"
    /\ \E pks \in PubkeyLists, ch \in AddrChains(BatchAccounts), f \in FailsFirst :
        Return("reader_get_easy_solana_accounts", pks, Chain(ch, <<>>, f),
               reader_get_easy_solana_accounts(pks, ch, f))

GetMetadataOfToken ==
    /\ pc = "idle"
    /\ \E t \in SingleAddrTexts,
          a \in RichMetaAccounts \cup {NoAccount, GarbageAccount}, f \in FailsFirst :
        LET ch == (metadata_pubkey_of(AddrA) :> a)
        IN Return("get_metadata_of_token", <<t>>, Chain(ch, <<>>, f),
                  rt_get_metadata_of_token(t, ch, f))

GetMetadataOfTokens ==
    /\ pc = "idle"
    /\ \E ts \in AddrTextLists, mch \in MetaChains, f \in FailsFirst :
        Return("get_metadata_of_tokens", ts, Chain(mch, <<>>, f),
               rt_get_metadata_of_tokens(ts, mch, f))

GetMultipleMintAccounts ==
    /\ pc = "idle"
    /\ \E ts \in AddrTextLists, ch \in AddrChains(BatchAccounts), f \in FailsFirst :
        Return("get_multiple_mint_accounts", ts, Chain(ch, <<>>, f),
               rt_get_multiple_mint_accounts(ts, ch, f))

GetMultipleAssociatedTokenAccounts ==
    /\ pc = "idle"
    /\ \E ts \in AddrTextLists, ch \in AddrChains(TokenSlotChoices), mch \in MintChains,
          f \in FailsAny :
        Return("get_multiple_associated_token_accounts", ts, Chain(ch @@ mch, <<>>, f),
               rt_get_multiple_associated_token_accounts(ts, ch @@ mch, f))

\* the items get_token_accounts_by_owner may answer with: two well-formed
\* ones and one for every point at which the parse of an item can stop
TokenItem(pubkey_text, mint_text, owner_text, amount_text) ==
    KeyedAccount(pubkey_text, pubkey_to_string(token_program), TRUE,
        JObj([info |-> JObj([mint |-> JStr(mint_text), owner |-> JStr(owner_text),
                             tokenAmount |-> JObj([amount |-> JStr(amount_text)])])]))

ItemChoices ==
    {TokenItem(TextA, pubkey_to_string(MintC), TextA, <<"7">>),
     TokenItem(TextB, pubkey_to_string(MintD), TextA, <<"1", "2">>),
     TokenItem(BadText, pubkey_to_string(MintC), TextA, <<"7">>),
     TokenItem(TextA, BadText, TextA, <<"7">>),
     TokenItem(TextA, pubkey_to_string(MintC), BadText, <<"7">>),
     TokenItem(TextA, pubkey_to_string(MintC), TextA, <<"x">>),
     KeyedAccount(TextA, pubkey_to_string(token_program), FALSE, JNull),
     KeyedAccount(TextA, pubkey_to_string(token_program), TRUE,
        JObj([program |-> JStr(<<>>)])),
     KeyedAccount(TextA, pubkey_to_string(token_program), TRUE,
        JObj([info |-> JStr(<<>>)])),
     KeyedAccount(TextA, pubkey_to_string(token_program), TRUE,
        JObj([info |-> JObj([owner |-> JStr(TextA)])])),
     KeyedAccount(TextA, pubkey_to_string(token_program), TRUE,
        JObj([info |-> JObj([mint |-> JStr(pubkey_to_string(MintC))])])),
     KeyedAccount(TextA, pubkey_to_string(token_program), TRUE,
        JObj([info |-> JObj([mint |-> JStr(pubkey_to_string(MintC)),
                             owner |-> JStr(TextA)])])),
     KeyedAccount(TextA, pubkey_to_string(token_program), TRUE,
        JObj([info |-> JObj([mint |-> JStr(pubkey_to_string(MintC)),
                             owner |-> JStr(TextA),
                             tokenAmount |-> JObj([decimals |-> JStr(<<"6">>)])])]))}

GetAllTokenAccounts ==
    /\ pc = "idle"
    /\ \E t \in SingleAddrTexts, items \in SeqsUpTo(ItemChoices, MaxBatch),
          mch \in MintChains, f \in FailsAny :
        Return("get_all_token_accounts", <<t>>, Chain(mch, items, f),
               rt_get_all_token_accounts(t, items, mch, f))

\* what may sit at the address get_associated_token_account is called on: a
\* token account, one that is not initialized, a wallet, a mint, no account
TypedSlotChoices ==
    TokenSlotChoices
    \cup {RawAccount(3, system_program, FALSE, EmptyData),
          RawAccount(1, token_program, FALSE,
                     Payload("token", FALSE, TokenPack(MintC, AddrA, 5), NoMeta)),
          RawAccount(1, token_program, FALSE,
                     Payload("mint", TRUE, MintPack(100, 6), NoMeta)),
          RawAccount(1, token_program, FALSE,
                     Payload("mint", FALSE, MintPack(100, 6), NoMeta))}

GetAssociatedTokenAccount ==
    /\ pc = "idle"
    /\ \E t \in SingleAddrTexts, a \in TypedSlotChoices, mch \in MintChains,
          f \in FailsAny :
        LET ch == (AddrA :> a) @@ mch
        IN Return("get_associated_token_account", <<t>>, Chain(ch, <<>>, f),
                  rt_get_associated_token_account(t, ch, f))

GetMintAccount ==
    /\ pc = "idle"
    /\ \E t \in SingleAddrTexts, a \in TypedSlotChoices, f \in FailsFirst :
        LET ch == (AddrA :> a)
        IN Return("get_mint_account", <<t>>, Chain(ch, <<>>, f),
                  rt_get_mint_account(t, ch, f))

\* calculate_token_price on an arbitrary curve state
CalculateTokenPrice ==
    /\ pc = "idle"
    /\ \E curve_state \in CurveStates :
        Return("calculate_token_price", <<curve_state>>, NoChain,
               Outcome(calculate_token_price(curve_state), <<>>))

\* derive_associated_token_account_address on arbitrary texts
DeriveAssociatedTokenAccountAddress ==
    /\ pc = "idle"
    /\ \E w \in DeriveTexts, m \in DeriveTexts, tp \in DerivePrograms, env \in DeriveEnvs :
        Return("derive_associated_token_account_address", <<w, m, tp>>, env,
               Outcome(derive_associated_token_account_address(w, m, tp), <<>>))

\* a second call with the arguments of the first, on another day
DeriveAssociatedTokenAccountAddressAgain ==
    /\ pc = "done"
    /\ op = "derive_associated_token_account_address"
    /\ \E env \in DeriveEnvs :
        Return(op, args, env,
               Outcome(derive_associated_token_account_address(args[1], args[2], args[3]),
                       <<>>))

\* derive_multiple_associated_token_account_addresses on an arbitrary map
DeriveMultipleAssociatedTokenAccountAddresses ==
    /\ pc = "idle"
    /\ \E m \in WalletToMints, tp \in DerivePrograms :
        \E order \in KeyOrders(m) :
            Return("derive_multiple_associated_token_account_addresses",
                   <<m, tp, order>>, NoChain,
                   Outcome(derive_multiple_associated_token_account_addresses(order, m, tp),
                           <<>>))

\* TransactionBuilder::new(client, payer_keypair)
NewBuilder ==
    /\ pc = "idle"
    /\ pc' = "builder"
    /\ op' = "new"
    /\ args' = <<PayerKeypair>>
    /\ chain' = NoEnv
    /\ rpcLog' = <<>>
    /\ result' = Ok("builder")
    /\ builder' = TransactionBuilder_new(PayerKeypair)
    /\ built' = <<>>
    /\ UNCHANGED attempts

\* the return of a mutator: a panic ends the life of the builder
MutatorReturn(name, a, env, step) ==
    /\ pc' = IF ~step.res.ok /\ step.res.err = "panic" THEN "panicked" ELSE "builder"
    /\ op' = name
    /\ args' = a
    /\ chain' = env
    /\ rpcLog' = step.log
    /\ result' = step.res
    /\ builder' = step.builder
    /\ UNCHANGED <<built, attempts>>

\* a mutator may be called while the instruction list holds fewer than
\* MaxInstructions instructions
CanPush == pc = "builder" /\ Len(builder.instructions) < MaxInstructions

SetComputeLimit ==
    /\ CanPush
    /\ \E limit \in {1000000} :
        MutatorReturn("set_compute_limit", <<limit>>, NoEnv, set_compute_limit(builder, limit))

SetComputeUnits ==
    /\ CanPush
    /\ \E units \in {50000} :
        MutatorReturn("set_compute_units", <<units>>, NoEnv, set_compute_units(builder, units))

TransferSol ==
    /\ CanPush
    /\ \E <<from_keypair, destination>> \in
            {<<PayerKeypair, TextB>>, <<OtherKeypair, TextB>>, <<OtherKeypair, BadText>>} :
        MutatorReturn("transfer_sol", <<OneSol, from_keypair, destination>>, NoEnv,
                      transfer_sol(builder, OneSol, from_keypair, destination))

CreateAssociatedTokenAccountForPayer ==
    /\ CanPush
    /\ \E token \in {TextC, BadText} :
        MutatorReturn("create_associated_token_account_for_payer",
                      <<token, token_program>>, NoEnv,
                      create_associated_token_account_for_payer(builder, token, token_program))

CreateAssociatedTokenAccountForOthers ==
    /\ CanPush
    /\ \E <<token, target>> \in {<<TextC, TextB>>, <<TextC, ShortText>>} :
        MutatorReturn("create_associated_token_account_for_others",
                      <<token, target, token_program>>, NoEnv,
                      create_associated_token_account_for_others(builder, token, target,
                                                                 token_program))

DeleteAssociatedTokenAccount ==
    /\ CanPush
    /\ \E <<token, tp>> \in {<<TextC, token_program>>, <<TextC, metadata_program>>} :
        MutatorReturn("delete_associated_token_account", <<token, TextA, tp>>, NoEnv,
                      delete_associated_token_account(builder, token, TextA, tp))

BurnTokens ==
    /\ CanPush
    /\ \E <<token, tp>> \in {<<TextC, token_2022_program>>, <<BadText, token_2022_program>>} :
        MutatorReturn("burn_tokens", <<token, 5, tp>>, NoEnv,
                      burn_tokens(builder, token, 5, tp))

BumpPumpfunToken ==
    /\ CanPush
    /\ \E <<token, a, f, max_sol_cost>> \in BumpChoices :
        LET ch == (bonding_curve_pubkey_of(MintC) :> a)
        IN MutatorReturn("bump_pumpfun_token", <<token, max_sol_cost>>,
                         BuilderEnv(ch, "h1", f),
                         bump_pumpfun_token(builder, token, max_sol_cost, ch, f))

\* build(): the provider names the latest block hash, or the request fails
Build ==
    /\ pc = "builder"
    /\ Len(built) < MaxBuilds
    /\ \E <<latest_blockhash, f>> \in BuildChoices :
        LET step == build(builder, latest_blockhash, 1 \in f)
        IN /\ pc' = "builder"
           /\ op' = "build"
           /\ args' = <<>>
           /\ chain' = BuilderEnv(<<>>, latest_blockhash, f)
           /\ rpcLog' = step.log
           /\ result' = step.res
           /\ builder' = step.builder
           /\ built' = IF step.res.ok THEN Append(built, step.res.val) ELSE built
           /\ UNCHANGED attempts

\* simulate_transaction on a built transaction
SimulateTransaction ==
    /\ pc = "idle"
    /\ \E response \in SimulationResponses, f \in FailsFirst :
        Return("simulate_transaction", <<>>, SimulationEnv(response, f),
               simulate_transaction(response, 1 \in f))

\* the call of generate_keypair up to the loop: an invalid pattern returns
\* at once
GenerateKeypair ==
    /\ pc = "idle"
    /\ \E starts_with \in PatternOptions, ends_with \in PatternOptions :
        /\ pc' = IF validate_patterns(starts_with, ends_with).ok
                 THEN "generating" ELSE "done"
        /\ op' = "generate_keypair"
        /\ args' = <<starts_with, ends_with>>
        /\ result' = IF validate_patterns(starts_with, ends_with).ok
                     THEN Err("none") ELSE validate_patterns(starts_with, ends_with)
    /\ attempts' = 0
    /\ chain' = NoChain
    /\ rpcLog' = <<>>
    /\ UNCHANGED <<builder, built>>

\* one turn of the loop with the keypair Keypair::new() drew
LoopTurn(keypair) ==
    /\ attempts' = next_attempts(attempts)
    /\ IF keypair_matches(keypair, args[1], args[2])
       THEN pc' = "done" /\ result' = Ok(keypair)
       ELSE pc' = "generating" /\ result' = result
    /\ UNCHANGED <<op, args, chain, rpcLog, builder, built>>

\* a turn of the loop that draws a keypair whose address matches
GenerateKeypairMatch ==
    /\ pc = "generating"
    /\ \E pk \in Pubkeys :
        keypair_matches(Keypair(pk), args[1], args[2]) /\ LoopTurn(Keypair(pk))

\* a turn of the loop that draws a keypair whose address does not match
GenerateKeypairMiss ==
    /\ pc = "generating"
    /\ \E pk \in Pubkeys :
        ~keypair_matches(Keypair(pk), args[1], args[2]) /\ LoopTurn(Keypair(pk))

NextCodec == ParseOne \/ RoundTrip \/ ParseMany

NextAccounts ==
    \/ GetAccount
    \/ GetMultipleAccounts
    \/ GetEasySolanaAccount
    \/ GetEasySolanaAccounts
    \/ EsaGetAccount
    \/ EsaGetMultipleAccounts
    \/ ReaderGetEasySolanaAccounts

NextMetadata ==
    \/ GetMetadataOfToken
    \/ GetMetadataOfTokens
    \/ GetAccount
    \/ GetMultipleAccounts

NextBatch ==
    \/ GetMultipleAccounts
    \/ GetMultipleAssociatedTokenAccounts
    \/ GetMultipleMintAccounts
    \/ GetMetadataOfTokens
    \/ GetAllTokenAccounts

NextMerge == GetEasySolanaAccounts

NextTyped == GetAssociatedTokenAccount \/ GetMintAccount

NextPumpfun == CalculateTokenPrice

NextDerive ==
    \/ DeriveAssociatedTokenAccountAddress
    \/ DeriveAssociatedTokenAccountAddressAgain
    \/ DeriveMultipleAssociatedTokenAccountAddresses
    \/ GetMetadataOfToken

Mutators ==
    \/ SetComputeLimit
    \/ SetComputeUnits
    \/ TransferSol
    \/ CreateAssociatedTokenAccountForPayer
    \/ CreateAssociatedTokenAccountForOthers
    \/ DeleteAssociatedTokenAccount
    \/ BurnTokens
    \/ BumpPumpfunToken

NextBuilder == NewBuilder \/ Mutators \/ Build

NextSimulation == SimulateTransaction

NextKeygen == GenerateKeypair \/ GenerateKeypairMatch \/ GenerateKeypairMiss

Next ==
    \/ NextCodec
    \/ NextAccounts
    \/ NextMetadata
    \/ NextBatch
    \/ NextTyped
    \/ NextPumpfun
    \/ NextDerive
    \/ NextBuilder
    \/ NextSimulation
    \/ NextKeygen

\* the address codec
SpecCodec == Init /\ [][NextCodec]_vars
\* the untyped account readers, single fetch and batch
SpecAccounts == Init /\ [][NextAccounts]_vars
\* the metadata readers and the readers that yield a Metadata variant
SpecMetadata == Init /\ [][NextMetadata]_vars
\* the batch readers
SpecBatch == Init /\ [][NextBatch]_vars
\* get_easy_solana_accounts and its metadata merge
SpecMerge == Init /\ [][NextMerge]_vars
\* the typed single readers
SpecTyped == Init /\ [][NextTyped]_vars
\* the bonding-curve price
SpecPumpfun == Init /\ [][NextPumpfun]_vars

\* the address derivations
SpecDerive == Init /\ [][NextDerive]_vars

\* the life of one TransactionBuilder
SpecBuilder == Init /\ [][NextBuilder]_vars

\* the simulation of a transaction
SpecSimulation == Init /\ [][NextSimulation]_vars

\* generate_keypair: the loop keeps turning, and a key that can be drawn
\* again and again is drawn at some time
SpecKeygen ==
    /\ Init /\ [][NextKeygen]_vars
    /\ WF_vars(NextKeygen)
    /\ SF_vars(GenerateKeypairMatch)

\* every call
Spec == Init /\ [][Next]_vars

(***************************************************************************)
(* Properties of the address codec.                                        *)
(***************************************************************************)
\* the texts that are the textual form of an identifier
ValidTexts == {pubkey_to_string(id) : id \in Pubkeys}

\* the identifier a valid text is the textual form of
IdOfText(t) == CHOOSE id \in Pubkeys : pubkey_to_string(id) = t

\* the errors of ParsePubkeyError, which InvalidAddress wraps
ParsePubkeyErrors == {"Invalid", "WrongSize"}

\* the position in ts of the k-th entry that is a valid text
NthValid(ts, k) ==
    CHOOSE i \in 1..Len(ts) :
        /\ ts[i] \in ValidTexts
        /\ Cardinality({j \in 1..i : ts[j] \in ValidTexts}) = k

\* C9: addresses_to_pubkeys returns exactly the identifiers of the entries
\* that parse, in input order and with duplicates kept: the k-th identifier
\* returned is the identifier of the k-th valid entry, and there are as many
\* identifiers as valid entries; the call never fails
C9_ParseManyKeepsValidInOrder ==
    (pc = "done" /\ op = "addresses_to_pubkeys") =>
        /\ result.ok
        /\ Len(result.val) = Cardinality({i \in 1..Len(args) : args[i] \in ValidTexts})
        /\ \A k \in 1..Len(result.val) : result.val[k] = IdOfText(args[NthValid(args, k)])

\* an invalid entry in front of a valid one has been dropped without
\* shifting or replacing the valid one
C9_Witness ==
    /\ pc = "done" /\ op = "addresses_to_pubkeys"
    /\ Len(args) = 2
    /\ args[1] \notin ValidTexts
    /\ args[2] \in ValidTexts
    /\ result = Ok(<<IdOfText(args[2])>>)

C10_WitnessRoundTrip ==
    /\ pc = "done" /\ op = "round_trip"
    /\ args[1].bytes[1] = 0
    /\ args[1] # system_program
    /\ result = Ok(args[1])

(***************************************************************************)
(* Properties of the account readers.                                      *)
(***************************************************************************)
\* the readers of read_transactions/account.rs
RtAccountOps == {"get_account", "get_multiple_accounts"}
\* the readers of the reader modules, whose probes are gated by the owner
ReaderAccountOps ==
    {"get_easy_solana_account", "get_easy_solana_accounts", "esa_get_account",
     "esa_get_multiple_accounts", "reader_get_easy_solana_accounts"}
SingleFetchOps == {"get_account", "get_easy_solana_account", "esa_get_account"}
ManyFetchOps ==
    {"get_multiple_accounts", "get_easy_solana_accounts", "esa_get_multiple_accounts",
     "reader_get_easy_solana_accounts"}
\* the operations whose arguments are address texts
TextArgOps == {"get_account", "get_multiple_accounts", "esa_get_account",
               "esa_get_multiple_accounts"}

\* the accounts a successful call returned, as a list
Entries == IF op \in SingleFetchOps THEN <<result.val>> ELSE result.val

\* the identifier of a returned account (the read_transactions readers
\* return it as text)
KeyOf(e) == IF op \in RtAccountOps THEN address_to_pubkey(e.pubkey).val ELSE e.pubkey

\* the raw account on chain a returned account was made from
RawOf(e) == Lookup(chain.accounts, KeyOf(e))

\* the account kind of the specification a variant of the code stands for
KindOf(variant) ==
    CASE variant = "Program" -> "Program"
      [] variant = "Wallet" -> "Wallet"
      [] variant \in {"AssociatedToken", "AssociatedTokenAccount"} -> "AssociatedTokenAccount"
      [] variant \in {"Mint", "MintAccount"} -> "MintAccount"
      [] variant = "Metadata" -> "MetadataAccount"
      [] OTHER -> "Other"

\* the decision order: first match wins, whatever the non-System owner
FirstMatchKind(raw) ==
    CASE raw.executable -> "Program"
      [] ~raw.executable /\ raw.owner = system_program -> "Wallet"
      [] OTHER ->
           IF SplTokenAccount_unpack(raw.data).ok THEN "AssociatedTokenAccount"
           ELSE IF SplMintAccount_unpack(raw.data).ok THEN "MintAccount"
           ELSE IF MetadataAccount_deserialize(raw.data).ok THEN "MetadataAccount"
           ELSE "Other"

\* the decision order with the token and mint probes made only for an
\* account the Token program owns, and no metadata probe
OwnerGatedKind(raw) ==
    CASE raw.executable -> "Program"
      [] ~raw.executable /\ raw.owner = system_program -> "Wallet"
      [] OTHER ->
           IF raw.owner = token_program /\ SplTokenAccount_unpack(raw.data).ok
           THEN "AssociatedTokenAccount"
           ELSE IF raw.owner = token_program /\ SplMintAccount_unpack(raw.data).ok
           THEN "MintAccount"
           ELSE "Other"

\* C1 as stated: every one of get_account, get_multiple_accounts,
\* get_easy_solana_account and get_easy_solana_accounts returns the kind of
\* the first matching rule of the decision order, whatever the non-System
\* owner
C1_Original ==
    (/\ pc = "done"
     /\ op \in {"get_account", "get_multiple_accounts", "get_easy_solana_account",
                "get_easy_solana_accounts"}
     /\ result.ok) =>
        \A k \in 1..Len(Entries) :
            KindOf(Entries[k].account_type.variant) = FirstMatchKind(RawOf(Entries[k]))

\* C1 amended: get_account and get_multiple_accounts of read_transactions
\* return the kind of the first matching rule of the decision order whatever
\* the non-System owner; get_easy_solana_account, get_easy_solana_accounts and
\* the other readers of the reader modules probe the token and mint layouts
\* only for an account the Token program owns and never return MetadataAccount
C1_FirstMatchOrOwnerGated ==
    (pc = "done" /\ op \in RtAccountOps \cup ReaderAccountOps /\ result.ok) =>
        \A k \in 1..Len(Entries) :
            KindOf(Entries[k].account_type.variant) =
                IF op \in RtAccountOps THEN FirstMatchKind(RawOf(Entries[k]))
                ELSE OwnerGatedKind(RawOf(Entries[k]))

\* get_easy_solana_account has returned Others for a Token-2022-owned payload
\* that decodes as a token account
C1_Witness ==
    /\ pc = "done" /\ op = "get_easy_solana_account" /\ result.ok
    /\ ~RawOf(result.val).executable
    /\ RawOf(result.val).owner = token_2022_program
    /\ SplTokenAccount_unpack(RawOf(result.val).data).ok
    /\ result.val.account_type.variant = "Others"

\* get_account has returned Mint for a Token-2022-owned mint payload at whose
\* head a metadata record can be read too
C1_WitnessRt ==
    /\ pc = "done" /\ op = "get_account" /\ result.ok
    /\ RawOf(result.val).owner = token_2022_program
    /\ SplMintAccount_unpack(RawOf(result.val).data).ok
    /\ MetadataAccount_deserialize(RawOf(result.val).data).ok
    /\ result.val.account_type.variant = "Mint"

\* C2: in the single-fetch and in the batch readers, an executable account is
\* classified Program and a non-executable account the System program owns is
\* classified Wallet, whatever its payload
C2_FlagAndSystemOwnerDecide ==
    (pc = "done" /\ op \in RtAccountOps \cup ReaderAccountOps /\ result.ok) =>
        \A k \in 1..Len(Entries) :
            /\ RawOf(Entries[k]) # NoAccount
            /\ RawOf(Entries[k]).executable =>
                   Entries[k].account_type.variant = "Program"
            /\ (~RawOf(Entries[k]).executable /\ RawOf(Entries[k]).owner = system_program) =>
                   Entries[k].account_type.variant = "Wallet"

\* a batch has returned Program for an executable account whose payload
\* decodes as a token account, next to Wallet for a System-owned account
\* whose payload decodes as metadata
C2_Witness ==
    /\ pc = "done" /\ op \in ManyFetchOps /\ result.ok
    /\ Len(result.val) = 2
    /\ RawOf(result.val[1]).executable
    /\ SplTokenAccount_unpack(RawOf(result.val[1]).data).ok
    /\ result.val[1].account_type.variant = "Program"
    /\ ~RawOf(result.val[2]).executable
    /\ RawOf(result.val[2]).owner = system_program
    /\ MetadataAccount_deserialize(RawOf(result.val[2]).data).ok
    /\ result.val[2].account_type.variant = "Wallet"

\* the identifiers a many-fetch call asked for
RequestedKeys ==
    IF op \in TextArgOps THEN [i \in 1..Len(args) |-> address_to_pubkey(args[i]).val]
    ELSE args

\* the requested identifiers whose account exists, in request order
ExistingKeys ==
    SelectSeqIdx(RequestedKeys,
                 {i \in 1..Len(args) : Lookup(chain.accounts, RequestedKeys[i]) # NoAccount})

\* C3 as stated: a many-fetch of valid addresses whose requests the provider
\* answers returns Ok with one entry per existing account, in input order; a
\* nonexistent account is dropped and never makes the call fail
C3_Original ==
    (/\ pc = "done" /\ op \in ManyFetchOps
     /\ chain.transport_fails = {}
     /\ op \in TextArgOps => \A i \in 1..Len(args) : address_to_pubkey(args[i]).ok) =>
        /\ result.ok
        /\ Len(result.val) = Len(ExistingKeys)
        /\ \A k \in 1..Len(result.val) : KeyOf(result.val[k]) = ExistingKeys[k]

BatchOps ==
    {"get_multiple_accounts", "get_multiple_associated_token_accounts",
     "get_multiple_mint_accounts", "get_metadata_of_tokens", "get_all_token_accounts"}

\* C5 as stated: a batch operation whose requests the provider answers
\* returns Ok, whatever item of it cannot be decoded (set aside are the
\* get_multiple_accounts of an address without an account, the
\* get_multiple_associated_token_accounts of no valid address and the
\* get_all_token_accounts of an invalid wallet address, which fail for
\* another reason than an undecodable item)
C5_Original ==
    (/\ pc = "done" /\ op \in BatchOps
     /\ chain.transport_fails = {}
     /\ op = "get_multiple_accounts" =>
            \A i \in 1..Len(addresses_to_pubkeys(args)) :
                Lookup(chain.accounts, addresses_to_pubkeys(args)[i]) # NoAccount
     /\ op = "get_multiple_associated_token_accounts" => addresses_to_pubkeys(args) # <<>>
     /\ op = "get_all_token_accounts" => address_to_pubkey(args[1]).ok) =>
        result.ok

\* C5, the items kept: every token account get_multiple_associated_token_accounts
\* returns carries the supply of its own mint
C5_OriginalKeptItems ==
    (pc = "done" /\ op = "get_multiple_associated_token_accounts" /\ result.ok) =>
        \A k \in 1..Len(result.val) :
            LET mint == Lookup(chain.accounts, address_to_pubkey(result.val[k].mint_pubkey).val)
            IN /\ mint # NoAccount
               /\ SplMintAccount_unpack(mint.data).ok
               /\ result.val[k].mint_supply = SplMintAccount_unpack(mint.data).val.supply

(***************************************************************************)
(* Properties of the metadata readers.                                     *)
(***************************************************************************)
\* r is d with its maximal trailing run of NULs removed and nothing else
\* changed
IsTrimOf(r, d) ==
    /\ \E k \in 0..Len(d) : d = r \o Repeat(NUL, k)
    /\ r = <<>> \/ r[Len(r)] # NUL

\* m is the decoded metadata d with name, symbol and uri trimmed
TrimmedFrom(m, d) ==
    /\ m.mint = d.mint
    /\ IsTrimOf(m.data.name, d.data.name)
    /\ IsTrimOf(m.data.symbol, d.data.symbol)
    /\ IsTrimOf(m.data.uri, d.data.uri)

\* the metadata decoded from the account at the metadata address of a token
DecodedMetadataOf(token_pubkey) ==
    MetadataAccount_deserialize(Lookup(chain.accounts, metadata_pubkey_of(token_pubkey)).data).val

\* C6 as stated: every MetadataAccount returned by get_metadata_of_token, by
\* get_metadata_of_tokens, or as the Metadata variant of get_account and
\* get_multiple_accounts has name, symbol and uri equal to the decoded field
\* without its maximal trailing run of NULs
C6_Original ==
    /\ (pc = "done" /\ op = "get_metadata_of_token" /\ result.ok) =>
          TrimmedFrom(result.val, DecodedMetadataOf(address_to_pubkey(args[1]).val))
    /\ (pc = "done" /\ op = "get_metadata_of_tokens" /\ result.ok) =>
          \A k \in 1..Len(result.val) :
              \E i \in 1..Len(addresses_to_pubkeys(args)) :
                  LET md == Lookup(chain.accounts,
                                   metadata_pubkey_of(addresses_to_pubkeys(args)[i]))
                  IN /\ md # NoAccount
                     /\ MetadataAccount_deserialize(md.data).ok
                     /\ TrimmedFrom(result.val[k], MetadataAccount_deserialize(md.data).val)
    /\ (pc = "done" /\ op \in RtAccountOps /\ result.ok) =>
          \A k \in 1..Len(Entries) :
              Entries[k].account_type.variant = "Metadata" =>
                  TrimmedFrom(Entries[k].account_type.details,
                              MetadataAccount_deserialize(RawOf(Entries[k]).data).val)

(***************************************************************************)
(* Properties of get_easy_solana_accounts.                                 *)
(***************************************************************************)
\* the positions of the request at which a mint account was found
MintsFound ==
    {i \in 1..Len(args) :
        LET raw == Lookup(chain.accounts, args[i])
        IN /\ raw # NoAccount
           /\ ~raw.executable
           /\ raw.owner = token_program
           /\ SplMintAccount_unpack(raw.data).ok}

\* C7: get_easy_solana_accounts issues one multi-account fetch for the
\* requested addresses and, if and only if that fetch succeeded and found at
\* least one mint, exactly one more multi-account fetch, for the metadata
\* addresses of all the mints found; never more than two requests
C7_AtMostTwoRequests ==
    (pc = "done" /\ op = "get_easy_solana_accounts") =>
        /\ Len(rpcLog) \in {1, 2}
        /\ rpcLog[1] = Req("get_multiple_accounts", args, rpcLog[1].ok)
        /\ Len(rpcLog) = 2 <=> (rpcLog[1].ok /\ MintsFound # {})
        /\ Len(rpcLog) = 2 =>
              /\ rpcLog[2].method = "get_multiple_accounts"
              /\ rpcLog[2].keys =
                    [k \in 1..Cardinality(MintsFound) |->
                        metadata_pubkey_of(SelectSeqIdx(args, MintsFound)[k])]

\* a batch in which two mints were found has made two requests, the second
\* for both metadata addresses
C7_Witness ==
    /\ pc = "done" /\ op = "get_easy_solana_accounts"
    /\ Cardinality(MintsFound) = 2
    /\ args[1] # args[2]
    /\ Len(rpcLog) = 2
    /\ Len(rpcLog[2].keys) = 2
    /\ result.ok

\* C8 as stated: in an Ok result of get_easy_solana_accounts every MintAccount
\* entry whose metadata account exists and decodes carries its trimmed name,
\* symbol and uri, also when its address occurs more than once in the
\* request; every other MintAccount entry carries empty strings; and every
\* entry that is no mint is as the classification made it
C8_Original ==
    (pc = "done" /\ op = "get_easy_solana_accounts" /\ result.ok) =>
        \A k \in 1..Len(result.val) :
            LET e == result.val[k]
                raw == Lookup(chain.accounts, e.pubkey)
                md == Lookup(chain.accounts, metadata_pubkey_of(e.pubkey))
            IN IF e.account_type.variant # "MintAccount"
               THEN e = EasySolanaAccount(e.pubkey, raw, easy_account_type_batch(raw))
               ELSE IF /\ md # NoAccount
                       /\ MetadataAccount_deserialize(md.data).ok
                       /\ MetadataAccount_deserialize(md.data).val.mint = e.pubkey
               THEN /\ IsTrimOf(e.account_type.details.token_name,
                                MetadataAccount_deserialize(md.data).val.data.name)
                    /\ IsTrimOf(e.account_type.details.token_ticker,
                                MetadataAccount_deserialize(md.data).val.data.symbol)
                    /\ IsTrimOf(e.account_type.details.token_uri,
                                MetadataAccount_deserialize(md.data).val.data.uri)
               ELSE /\ e.account_type.details.token_name = <<>>
                    /\ e.account_type.details.token_ticker = <<>>
                    /\ e.account_type.details.token_uri = <<>>

(***************************************************************************)
(* Claims about the bonding-curve price.                                   *)
(***************************************************************************)
\* the curve state a calculate_token_price call was made on
CurveOf == args[1]

\* C11: calculate_token_price fails, with BondingCurveError, exactly when
\* virtual_token_reserves or virtual_sol_reserves is zero; on every other
\* curve state it returns a price, whatever the real reserves, the total
\* supply and the completion flag are
C11_ErrorIffVirtualReserveZero ==
    (pc = "done" /\ op = "calculate_token_price") =>
        IF \/ CurveOf.virtual_token_reserves.m = 0
           \/ CurveOf.virtual_sol_reserves.m = 0
        THEN result = Err("BondingCurveError")
        ELSE result.ok

\* a curve with token reserves but no SOL reserves has been refused
C11_Witness ==
    /\ pc = "done" /\ op = "calculate_token_price"
    /\ CurveOf.virtual_token_reserves.m > 0
    /\ CurveOf.virtual_sol_reserves.m = 0
    /\ result = Err("BondingCurveError")

\* virtual_sol_reserves * 10^6 / (virtual_token_reserves * 10^9) as one
\* fraction of the two mantissas and one power of ten
SingleFractionPrice(vsol, vtok) ==
    F64(vsol.m, vtok.m, (vsol.e + PUMP_CURVE_TOKEN_DECIMALS) - (vtok.e + LAMPORTS_PER_SOL.e))

\* virtual_token_reserves = 30_000_000_000_000, virtual_sol_reserves =
\* 30_000_000_000
IsFixtureCurve(c) ==
    c.virtual_token_reserves = U64(3, 13) /\ c.virtual_sol_reserves = U64(3, 10)

\* 0.000001
OneMillionth == [n |-> 1, d |-> 1, e |-> -6]

\* C12: for non-zero virtual reserves the price is virtual_sol_reserves *
\* 10^6 / (virtual_token_reserves * 10^9), a value fixed by the two virtual
\* reserves alone, and it is 0.000001 for 30_000_000_000_000 token units
\* against 30_000_000_000 lamports
C12_PriceIsVirtualSolOverVirtualToken ==
    (pc = "done" /\ op = "calculate_token_price" /\ result.ok) =>
        /\ result.val = SingleFractionPrice(CurveOf.virtual_sol_reserves,
                                            CurveOf.virtual_token_reserves)
        /\ IsFixtureCurve(CurveOf) => result.val = OneMillionth

\* the fixture reserves have been priced on a completed curve whose real
\* reserves differ from the virtual ones
C12_Witness ==
    /\ pc = "done" /\ op = "calculate_token_price" /\ result.ok
    /\ IsFixtureCurve(CurveOf)
    /\ CurveOf.complete
    /\ CurveOf.real_token_reserves # CurveOf.virtual_token_reserves
    /\ result.val = OneMillionth

(***************************************************************************)
(* Claims about the address derivations.                                   *)
(***************************************************************************)
\* the associated token address of the specification: seeds (wallet, token
\* program, mint) under the Associated Token Account program
AssociatedTokenAddressOf(wallet, token_program_id, mint) ==
    [text_of |-> [program |-> associated_token_account_program,
                  seeds |-> [label |-> "", keys |-> <<wallet, token_program_id, mint>>]]]

\* the metadata address of the specification: seeds ("metadata", metadata
\* program, mint) under the metadata program
MetadataAddressOf(mint) ==
    [program |-> metadata_program,
     seeds |-> [label |-> "metadata", keys |-> <<metadata_program, mint>>]]

\* a derivation made no request and, where it succeeded, returned the
\* address of the seeds (wallet, token program, mint); get_metadata_of_token
\* asked for the address of the seeds ("metadata", metadata program, mint)
C13_SeedsAndNoRequest ==
    /\ (pc = "done" /\ op = "derive_associated_token_account_address") =>
          /\ rpcLog = <<>>
          /\ result.ok =>
                result.val = AssociatedTokenAddressOf(IdOfText(args[1]), args[3],
                                                      IdOfText(args[2]))
    /\ (pc = "done" /\ op = "get_metadata_of_token" /\ args[1] \in ValidTexts) =>
          /\ Len(rpcLog) = 1
          /\ rpcLog[1].keys = <<MetadataAddressOf(IdOfText(args[1]))>>

\* a call with the arguments of the call before it returns what that call
\* returned, whatever the chain and the transport have become
C13_SameInputsSameAddress ==
    (op = "derive_associated_token_account_address" /\ op' = op /\ args' = args)
        => result' = result

HasInvalidAddress(m) ==
    \E w \in DOMAIN m :
        w \notin ValidTexts \/ \E i \in 1..Len(m[w]) : m[w][i] \notin ValidTexts

C15_WitnessMultiple ==
    /\ pc = "done" /\ op = "derive_multiple_associated_token_account_addresses"
    /\ args[3] = <<TextA, TextB>>
    /\ args[1][TextA] = <<TextC>>
    /\ args[1][TextB] = <<TextC, BadText>>
    /\ result = Err("Invalid")

(***************************************************************************)
(* Claims about the TransactionBuilder.                                    *)
(***************************************************************************)
MutatorOps ==
    {"set_compute_limit", "set_compute_units", "transfer_sol",
     "create_associated_token_account_for_payer",
     "create_associated_token_account_for_others",
     "delete_associated_token_account", "burn_tokens", "bump_pumpfun_token"}

\* a build call leaves the builder as it found it
C16_BuildLeavesBuilder == op' = "build" => builder' = builder

\* a successful build right after a successful build returns the same fee
\* payer and the same instructions
C16_BuildAfterBuild ==
    (op = "build" /\ op' = "build" /\ result.ok /\ result'.ok)
        => result'.val.message = result.val.message

\* C16: build() leaves the instruction list, the fee payer and the auxiliary
\* signers of the builder unchanged, whether it succeeds or fails with
\* LatestBlockhashError; two build() calls with no mutator between them
\* yield transactions with the same fee payer and instruction sequence
C16_BuildIsReadOnly ==
    /\ [][C16_BuildLeavesBuilder]_vars
    /\ [][C16_BuildAfterBuild]_vars
    /\ []((op = "build" /\ ~result.ok) => result = Err("LatestBlockhashError"))

\* a builder with instructions and an auxiliary signer has been built twice
\* in a row, under two block hashes, and still holds what it held
C16_Witness ==
    /\ op = "build" /\ result.ok
    /\ Len(built) = 2
    /\ built[1].message = built[2].message
    /\ built[1].recent_blockhash # built[2].recent_blockhash
    /\ builder.instructions = built[2].message.instructions
    /\ builder.instructions # <<>>
    /\ builder.signing_keypairs # <<>>

\* a mutator called after a build fails and adds no instruction
C17_MutatorAfterBuildFails ==
    (built # <<>> /\ op' \in MutatorOps)
        => (~result'.ok /\ builder'.instructions = builder.instructions)

\* every transaction built carries the instructions of the first one
C17_NoLateInstructionSigned ==
    \A i \in 1..Len(built) : built[i].message.instructions = built[1].message.instructions

\* C17 as stated: once build() has returned a transaction, every later
\* call of a mutator fails fast and leaves the instruction list unchanged,
\* so no later build() signs instructions added after the first build()
C17_Original == [][C17_MutatorAfterBuildFails]_vars /\ []C17_NoLateInstructionSigned


\* the list new is the list old with n more elements at its end
ExtendsBy(new, old, n) ==
    /\ Len(new) = Len(old) + n
    /\ SubSeq(new, 1, Len(old)) = old

\* the mutator of this step has appended one or two instructions behind those
\* the builder held, and has kept the signers it held in their order
MutatorAppended ==
    /\ \E n \in 1..2 : ExtendsBy(builder'.instructions, builder.instructions, n)
    /\ \E n \in 0..1 : ExtendsBy(builder'.signing_keypairs, builder.signing_keypairs, n)
    /\ builder'.payer_keypair = builder.payer_keypair

\* the mutator of this step has returned an error to its caller
MutatorReturnedError == pc' = "builder" /\ ~result'.ok

\* a mutator either appends and returns Ok, or returns an error and leaves
\* the builder as it was
C28_AppendOrError ==
    op' \in MutatorOps =>
        \/ result'.ok /\ MutatorAppended
        \/ MutatorReturnedError /\ builder' = builder

\* a successful build returns the instructions of the builder in their order
C28_BuildKeepsOrder ==
    (op' = "build" /\ result'.ok) =>
        result'.val.message.instructions = builder.instructions

\* C28 as stated: every mutator either appends its instruction(s) to the end
\* of the instruction list, leaving those accumulated before unchanged and
\* in their order, or returns an error leaving the instruction list and
\* signing_keypairs as they were; build() lists the instructions in the
\* order the mutators were called in
C28_Original == [][C28_AppendOrError]_vars /\ [][C28_BuildKeepsOrder]_vars

\* C28 without the return: every mutator that does not append leaves the
\* builder as it was, whether it returns an error or panics, and build()
\* lists the instructions in their order
C28_AppendOrUnchanged ==
    /\ [][op' \in MutatorOps =>
            \/ result'.ok /\ MutatorAppended
            \/ ~result'.ok /\ builder' = builder]_vars
    /\ [][C28_BuildKeepsOrder]_vars

\* a mutator has returned an error to a builder that holds an instruction
\* and an auxiliary signer, and the builder still holds them
C28_WitnessError ==
    /\ pc = "builder" /\ op \in MutatorOps /\ ~result.ok
    /\ builder.instructions # <<>>
    /\ builder.signing_keypairs # <<>>

\* bump_pumpfun_token has panicked on a builder that holds an instruction
C28_WitnessPanic ==
    /\ pc = "panicked" /\ op = "bump_pumpfun_token"
    /\ builder.instructions # <<>>

\* the key k occurs exactly once in the list s
OccursOnce(s, k) == Cardinality({i \in 1..Len(s) : s[i] = k}) = 1

\* C18 as stated: the list of keys build() signs with holds the fee payer
\* exactly once and each auxiliary signer exactly once, after every
\* sequence of mutators
C18_Original ==
    \A i \in 1..Len(built) :
        /\ OccursOnce(built[i].signers, Keypair(built[i].message.payer))
        /\ \A k \in Range(built[i].signers) : OccursOnce(built[i].signers, k)

(***************************************************************************)
(* Claims about the simulation.                                            *)
(***************************************************************************)
\* the provider's response to a simulate_transaction call that went through
ResponseOf == chain.simulation

\* C19: parse_simulation_result fails with NoLogsAvailable when the
\* response has no logs, otherwise with NoUnitsConsumedAvailable when it
\* has no units consumed, otherwise with NoInnerInstructionsAvailable when
\* it has no inner instructions; with all three present it returns Ok, also
\* when the provider reports an on-chain error, which is then the error
\* field of the result; the logs returned are the logs received
C19_MissingFieldsInOrder ==
    (pc = "done" /\ op = "simulate_transaction" /\ chain.transport_fails = {}) =>
        IF ResponseOf.logs = None THEN result = Err("NoLogsAvailable")
        ELSE IF ResponseOf.units_consumed = None
        THEN result = Err("NoUnitsConsumedAvailable")
        ELSE IF ResponseOf.inner_instructions = None
        THEN result = Err("NoInnerInstructionsAvailable")
        ELSE /\ result.ok
             /\ result.val.error = ResponseOf.err
             /\ result.val.transaction_logs = ResponseOf.logs.some

\* a response without logs and without units has been refused for its logs
C19_Witness ==
    /\ pc = "done" /\ op = "simulate_transaction" /\ chain.transport_fails = {}
    /\ ResponseOf.logs = None
    /\ ResponseOf.units_consumed = None
    /\ result = Err("NoLogsAvailable")

\* a complete response with an on-chain error has been returned as Ok
C19_WitnessOnChainError ==
    /\ pc = "done" /\ op = "simulate_transaction" /\ chain.transport_fails = {}
    /\ ResponseOf.err = Some("InstructionError")
    /\ result.ok
    /\ result.val.error = Some("InstructionError")
    /\ Len(result.val.instructions) = 2

(***************************************************************************)
(* Claims about the propagation of RPC failures.                           *)
(***************************************************************************)
\* the requests of the last call at which the transport failed
FailedRequests == {i \in 1..Len(rpcLog) : i \in chain.transport_fails}

\* the last call returned an error to its caller
ReturnedError == ~result.ok /\ result.err # "panic"

\* C20 as stated: no operation re-issues or goes on after an RPC request
\* that failed, and every RPC failure makes the calling operation return an
\* error to its caller at once: no operation returns Ok after one of its
\* requests failed
C20_Original ==
    (pc \in {"done", "builder", "panicked"} /\ FailedRequests # {}) =>
        /\ ReturnedError
        /\ \A i \in FailedRequests : i = Len(rpcLog)

\* the same statement for the calls on a builder: bump_pumpfun_token
\* returns an error when its bonding-curve fetch fails
C20_OriginalOnBuilder ==
    (op = "bump_pumpfun_token" /\ FailedRequests # {}) => ReturnedError

(***************************************************************************)
(* Properties of the returned payload and of the two fetch paths.          *)
(***************************************************************************)
\* the variants of read_transactions::account::AccountType and of the reader
\* modules' AccountType
RtVariants == {"Wallet", "AssociatedToken", "Mint", "Metadata", "Program", "Others"}
ReaderVariants == {"Program", "Wallet", "AssociatedTokenAccount", "MintAccount", "Others"}

\* the readers whose AccountType carries decoded details
DetailOps == {"get_account", "get_multiple_accounts", "get_easy_solana_account",
              "get_easy_solana_accounts"}

\* the variants that carry decoded details
DetailedVariants ==
    {"AssociatedToken", "Mint", "Metadata", "AssociatedTokenAccount", "MintAccount"}

\* C21: every account a single fetch or a batch returns carries, whatever its
\* variant, the payload the provider answered for its identifier, unchanged;
\* and it carries one variant of the reader's AccountType, with decoded
\* details exactly when the variant has them
C21_PayloadKeptAndOneVariant ==
    (pc = "done" /\ op \in RtAccountOps \cup ReaderAccountOps /\ result.ok) =>
        \A k \in 1..Len(Entries) :
            /\ RawOf(Entries[k]) # NoAccount
            /\ Entries[k].data = RawOf(Entries[k]).data
            /\ Entries[k].account_type.variant \in
                   (IF op \in RtAccountOps THEN RtVariants ELSE ReaderVariants)
            /\ op \in DetailOps =>
                   ((Entries[k].account_type.details # NoDetails) <=>
                        (Entries[k].account_type.variant \in DetailedVariants))

\* get_account has returned a Mint whose data is the non-empty payload of the
\* account on chain, a metadata record at its head included
C21_Witness ==
    /\ pc = "done" /\ op = "get_account" /\ result.ok
    /\ result.val.account_type.variant = "Mint"
    /\ result.val.data = RawOf(result.val).data
    /\ result.val.data.borsh # NoMeta
    /\ result.val.data # EmptyData

\* get_easy_solana_accounts has returned two accounts of different variants,
\* one of them Others, each with the payload of its account on chain
C21_WitnessBatch ==
    /\ pc = "done" /\ op = "get_easy_solana_accounts" /\ result.ok
    /\ Len(result.val) = 2
    /\ result.val[1].account_type.variant = "AssociatedTokenAccount"
    /\ result.val[2].account_type.variant = "Others"
    /\ \A k \in 1..2 : result.val[k].data = RawOf(result.val[k]).data
    /\ result.val[1].data # result.val[2].data

\* what the single fetch of the same reader returns for the identifier of a
\* batch entry, on the snapshot the batch saw and with every request answered
SingleFetchOf(e) ==
    IF op = "get_multiple_accounts"
    THEN rt_get_account(e.pubkey, chain.accounts, {}).res
    ELSE easy_get_easy_solana_account(e.pubkey, chain.accounts, {}).res

\* the variant with its decoded details, the balance and the payload agree
SameAccount(e, s) ==
    /\ e.account_type = s.account_type
    /\ e.sol_balance = s.sol_balance
    /\ e.data = s.data

\* C22 as stated: whenever get_multiple_accounts (get_easy_solana_accounts)
\* and get_account (get_easy_solana_account) of one of its addresses both
\* succeed, the batch entry and the single result carry the same variant with
\* the same decoded details, the same balance and the same payload
C22_Original ==
    (/\ pc = "done"
     /\ op \in {"get_multiple_accounts", "get_easy_solana_accounts"}
     /\ result.ok) =>
        \A k \in 1..Len(result.val) :
            SingleFetchOf(result.val[k]).ok =>
                SameAccount(result.val[k], SingleFetchOf(result.val[k]).val)

\* the part of C22 about read_transactions: get_multiple_accounts and
\* get_account agree on every account
C22_RtPathsConsistent ==
    (pc = "done" /\ op = "get_multiple_accounts" /\ result.ok) =>
        \A k \in 1..Len(result.val) :
            /\ SingleFetchOf(result.val[k]).ok
            /\ SameAccount(result.val[k], SingleFetchOf(result.val[k]).val)

(***************************************************************************)
(* Claims about the typed single readers.                                  *)
(***************************************************************************)
\* the account the provider answered the first request of a typed single
\* fetch with: NoAccount when the address does not parse, the request failed
\* or the account does not exist
FetchedAccount ==
    IF address_to_pubkey(args[1]).ok /\ 1 \notin chain.transport_fails
    THEN Lookup(chain.accounts, address_to_pubkey(args[1]).val)
    ELSE NoAccount

\* the mint account the provider answered the second request of
\* get_associated_token_account with
FetchedMintAccount ==
    IF /\ FetchedAccount # NoAccount
       /\ SplTokenAccount_unpack(FetchedAccount.data).ok
       /\ 2 \notin chain.transport_fails
    THEN Lookup(chain.accounts, SplTokenAccount_unpack(FetchedAccount.data).val.mint)
    ELSE NoAccount

\* a fetched payload fails the layout get_associated_token_account expects
TokenLayoutMismatch ==
    \/ /\ FetchedAccount # NoAccount
       /\ ~SplTokenAccount_unpack(FetchedAccount.data).ok
    \/ /\ FetchedMintAccount # NoAccount
       /\ ~SplMintAccount_unpack(FetchedMintAccount.data).ok

\* C23: get_associated_token_account returns DeserializeError, and no
\* account, exactly when the payload it fetched does not decode as a token
\* account or the payload of the mint it then fetched does not decode as a
\* mint; get_mint_account returns DeserializeError exactly when the payload
\* it fetched does not decode as a mint
C23_LayoutMismatchIsDeserializeError ==
    /\ (pc = "done" /\ op = "get_associated_token_account") =>
           (TokenLayoutMismatch <=> result = Err("DeserializeError"))
    /\ (pc = "done" /\ op = "get_mint_account") =>
           ((/\ FetchedAccount # NoAccount
             /\ ~SplMintAccount_unpack(FetchedAccount.data).ok)
                <=> result = Err("DeserializeError"))

\* get_associated_token_account of a wallet's address has failed with
\* DeserializeError after one request
C23_Witness ==
    /\ pc = "done" /\ op = "get_associated_token_account"
    /\ FetchedAccount # NoAccount
    /\ FetchedAccount.owner = system_program
    /\ result = Err("DeserializeError")
    /\ Len(rpcLog) = 1

\* get_associated_token_account of a token account whose mint account exists
\* and does not decode has failed with DeserializeError after two requests
C23_WitnessMint ==
    /\ pc = "done" /\ op = "get_associated_token_account"
    /\ FetchedAccount # NoAccount
    /\ SplTokenAccount_unpack(FetchedAccount.data).ok
    /\ FetchedMintAccount # NoAccount
    /\ ~SplMintAccount_unpack(FetchedMintAccount.data).ok
    /\ result = Err("DeserializeError")
    /\ Len(rpcLog) = 2

\* get_mint_account of a token account's address has failed with
\* DeserializeError
C23_WitnessMintAccount ==
    /\ pc = "done" /\ op = "get_mint_account"
    /\ FetchedAccount # NoAccount
    /\ SplTokenAccount_unpack(FetchedAccount.data).ok
    /\ result = Err("DeserializeError")

(***************************************************************************)
(* Claims about generate_keypair.                                          *)
(***************************************************************************)
\* the pattern, if given, holds only characters of the base58 alphabet
PatternValid(pattern) ==
    pattern = None \/ Range(pattern.some) \subseteq Range(Alphabet)

\* text begins (ends) with the pattern, if given, character by character
BeginsWith(text, pattern) ==
    pattern = None \/
        /\ Len(pattern.some) <= Len(text)
        /\ \A i \in 1..Len(pattern.some) : text[i] = pattern.some[i]
EndsWith(text, pattern) ==
    pattern = None \/
        /\ Len(pattern.some) <= Len(text)
        /\ \A i \in 1..Len(pattern.some) :
              text[Len(text) - Len(pattern.some) + i] = pattern.some[i]

\* C24: generate_keypair returns only a keypair whose address begins with
\* starts_with and ends with ends_with (each when given); when a pattern
\* holds a character outside the alphabet it returns InvalidPattern, and the
\* loop that draws keypairs is never entered
C24_OnlyMatchingKeypairOrInvalidPattern ==
    /\ (pc = "generating") =>
           (PatternValid(args[1]) /\ PatternValid(args[2]))
    /\ (pc = "done" /\ op = "generate_keypair") =>
           IF PatternValid(args[1]) /\ PatternValid(args[2])
           THEN /\ result.ok
                /\ BeginsWith(pubkey_to_string(result.val.pubkey), args[1])
                /\ EndsWith(pubkey_to_string(result.val.pubkey), args[2])
           ELSE result = Err("InvalidPattern") /\ attempts = 0

\* generate_keypair has returned, after a draw that did not match, a keypair
\* whose address begins and ends with the two different patterns given
C24_Witness ==
    /\ pc = "done" /\ op = "generate_keypair" /\ result.ok
    /\ args[1] # None /\ args[2] # None
    /\ args[1].some # <<>> /\ args[2].some # <<>>
    /\ args[1].some # args[2].some
    /\ attempts >= 2
    /\ BeginsWith(pubkey_to_string(result.val.pubkey), args[1])
    /\ EndsWith(pubkey_to_string(result.val.pubkey), args[2])

\* generate_keypair has returned InvalidPattern for a valid starts_with and
\* an ends_with that holds a character outside the alphabet
C24_WitnessInvalid ==
    /\ pc = "done" /\ op = "generate_keypair"
    /\ result = Err("InvalidPattern")
    /\ PatternValid(args[1]) /\ args[1] # None
    /\ ~PatternValid(args[2])

\* some address begins and ends with the patterns of the call
Matchable ==
    \E pk \in Pubkeys :
        /\ BeginsWith(pubkey_to_string(pk), args[1])
        /\ EndsWith(pubkey_to_string(pk), args[2])

\* C30 as stated: every call of generate_keypair returns at some time,
\* InvalidPattern or a keypair, whatever the patterns
C30_Original == (op = "generate_keypair") ~> (pc = "done")

\* the part of C30 that holds: a call whose validated patterns some address
\* matches returns at some time
C30_MatchableCallReturns ==
    (op = "generate_keypair" /\ Matchable) ~> (pc = "done")

\* a call whose validated patterns no address matches never returns
C30_UnmatchableCallLoops ==
    (pc = "generating" /\ ~Matchable) => [](pc = "generating")

(***************************************************************************)
(* Claims about the Pump.fun bump.                                         *)
(***************************************************************************)
RECURSIVE IsLittleEndianOf(_, _)
\* the byte string denotes the number v, lowest byte first
IsLittleEndianOf(bytes, v) ==
    IF bytes = <<>> THEN v = 0
    ELSE bytes[1] = v % 256 /\ IsLittleEndianOf(Tail(bytes), v \div 256)

\* the integer r nearest to num / den, a half going up:
\* r - 1/2 <= num / den < r + 1/2
NearestInteger(num, den) ==
    CHOOSE r \in {num \div den, num \div den + 1} :
        /\ 2 * r * den - den <= 2 * num
        /\ 2 * num < 2 * r * den + den

\* 80% of max_sol_cost divided by the price of the curve, in units of 10^-6
\* token: with max_sol_cost = (n / d) * 10^e SOL, virtual token reserves
\* mt * 10^et and virtual SOL reserves ms * 10^es lamports it is
\* (8 * n * mt) / (d * ms) * 10^(e + et - es + 8), rounded
BumpTokenAmount(max_sol_cost, curve) ==
    LET k == max_sol_cost.e + curve.virtual_token_reserves.e
             - curve.virtual_sol_reserves.e + 8
        num == 8 * max_sol_cost.n * curve.virtual_token_reserves.m
        den == max_sol_cost.d * curve.virtual_sol_reserves.m
    IN IF k >= 0 THEN NearestInteger(num * Pow10(k), den)
       ELSE NearestInteger(num, den * Pow10(0 - k))

\* max_sol_cost in whole lamports
BumpCostCap(max_sol_cost) ==
    IF max_sol_cost.e + 9 >= 0
    THEN (max_sol_cost.n * Pow10(max_sol_cost.e + 9)) \div max_sol_cost.d
    ELSE max_sol_cost.n \div (max_sol_cost.d * Pow10(0 - (max_sol_cost.e + 9)))

\* the curve a bump_pumpfun_token call found on chain
BumpCurve(env, token_address) ==
    Lookup(env.accounts,
           bonding_curve_pubkey_of(address_to_pubkey(token_address).val)).data.curve

\* a payload of 24 bytes: the opcode, then two eight-byte numbers lowest
\* byte first
IsPumpfunPayload(bytes, opcode, first, second) ==
    /\ Len(bytes) = 24
    /\ \A i \in 1..24 : bytes[i] \in 0..255
    /\ SubSeq(bytes, 1, 8) = opcode
    /\ IsLittleEndianOf(SubSeq(bytes, 9, 16), first)
    /\ IsLittleEndianOf(SubSeq(bytes, 17, 24), second)

\* a successful bump_pumpfun_token appends the buy and then the sell
C25_BumpStep ==
    (op' = "bump_pumpfun_token" /\ result'.ok) =>
        LET old == builder.instructions
            new == builder'.instructions
            amount == BumpTokenAmount(args'[2], BumpCurve(chain', args'[1]))
        IN /\ Len(new) = Len(old) + 2
           /\ SubSeq(new, 1, Len(old)) = old
           /\ new[Len(old) + 1].program_id = pumpfun_program
           /\ new[Len(old) + 2].program_id = pumpfun_program
           /\ IsPumpfunPayload(new[Len(old) + 1].data.bytes,
                               <<102, 6, 61, 18, 1, 218, 235, 234>>,
                               amount, BumpCostCap(args'[2]))
           /\ IsPumpfunPayload(new[Len(old) + 2].data.bytes,
                               <<51, 230, 133, 164, 1, 127, 131, 173>>,
                               amount, 0)

\* C25: on success bump_pumpfun_token appends exactly two instructions to the
\* Pump.fun program, the buy and right after it the sell; both carry the
\* token amount 80% of max_sol_cost buys at the price of the curve, in units
\* of 10^-6 token, rounded; the buy carries max_sol_cost in lamports and the
\* sell 0; each payload is the 8-byte opcode and the two numbers as eight
\* bytes each, lowest byte first
C25_BumpAppendsBuyThenSell == [][C25_BumpStep]_vars

\* a bump after another instruction has appended a buy and a sell for
\* 1866667 units (1866666.67 rounded), a number of more than one byte
C25_Witness ==
    /\ op = "bump_pumpfun_token" /\ result.ok
    /\ Len(builder.instructions) = 3
    /\ builder.instructions[1].program_id # pumpfun_program
    /\ BumpTokenAmount(args[2], BumpCurve(chain, args[1])) = 1866667
    /\ SubSeq(builder.instructions[2].data.bytes, 9, 11) = <<171, 123, 28>>
    /\ SubSeq(builder.instructions[3].data.bytes, 9, 11) = <<171, 123, 28>>

\* a bump for one and a half lamports has capped the buy at one lamport
C25_WitnessCostCap ==
    /\ op = "bump_pumpfun_token" /\ result.ok
    /\ args[2] = OneAndAHalfLamports
    /\ Len(builder.instructions) >= 2
    /\ BumpCostCap(args[2]) = 1
    /\ builder.instructions[Len(builder.instructions) - 1].data.bytes[17] = 1

(***************************************************************************)
(* Claims about the signers and the instruction list of the builder.       *)
(***************************************************************************)
\* the accounts of the instructions that are marked as signers
SignerKeysOf(instructions) ==
    UNION {{instructions[i].accounts[j].pubkey :
               j \in {j \in 1..Len(instructions[i].accounts) :
                         instructions[i].accounts[j].is_signer}} :
           i \in 1..Len(instructions)}

\* C26: in every builder, every account an accumulated instruction marks as
\* signer is the fee payer or the public key of a keypair in
\* signing_keypairs, and no keypair in signing_keypairs is the fee payer's;
\* every transaction build() returned is signed by every signer its
\* instructions name and by the fee payer
C26_EverySignerHasAKey ==
    /\ builder # NoBuilder =>
          /\ \A k \in SignerKeysOf(builder.instructions) :
                \/ k = builder.payer_keypair.pubkey
                \/ \E i \in 1..Len(builder.signing_keypairs) :
                      builder.signing_keypairs[i].pubkey = k
          /\ \A i \in 1..Len(builder.signing_keypairs) :
                builder.signing_keypairs[i].pubkey # builder.payer_keypair.pubkey
    /\ \A t \in 1..Len(built) :
          \A k \in SignerKeysOf(built[t].message.instructions)
                     \cup {built[t].message.payer} :
              [by |-> k, over |-> built[t].recent_blockhash] \in built[t].signatures

\* a builder holds a transfer another wallet signs and an instruction the
\* fee payer signs, keeps the keypair of that wallet, and build() has
\* returned a transaction both have signed
C26_Witness ==
    /\ builder # NoBuilder
    /\ AddrB \in SignerKeysOf(builder.instructions)
    /\ AddrA \in SignerKeysOf(builder.instructions)
    /\ builder.payer_keypair = Keypair(AddrA)
    /\ Keypair(AddrB) \in Range(builder.signing_keypairs)
    /\ built # <<>>
    /\ AddrB \in SignerKeysOf(built[Len(built)].message.instructions)
    /\ Cardinality(built[Len(built)].signatures) = 2

(***************************************************************************)
(* Properties of the token accounts the batch readers return.              *)
(***************************************************************************)
\* the account on chain at the mint address a returned token account names
MintAccountOf(item) ==
    Lookup(chain.accounts, address_to_pubkey(item.mint_pubkey).val)

\* the returned token account carries the data of the mint account at its
\* own mint_pubkey
CarriesOwnMint(item) ==
    /\ MintAccountOf(item) # NoAccount
    /\ SplMintAccount_unpack(MintAccountOf(item).data).ok
    /\ item.mint_supply = SplMintAccount_unpack(MintAccountOf(item).data).val.supply
    /\ item.mint_decimals = SplMintAccount_unpack(MintAccountOf(item).data).val.decimals

\* C27 as stated: every AssociatedTokenAccount that
\* get_multiple_associated_token_accounts or get_all_token_accounts returns
\* carries the supply and decimals of the mint account at its own
\* mint_pubkey, and from get_multiple_associated_token_accounts the program
\* that owns that mint account, whatever the other mint accounts of the
\* batch are
C27_Original ==
    (/\ pc = "done"
     /\ op \in {"get_multiple_associated_token_accounts", "get_all_token_accounts"}
     /\ result.ok) =>
        \A k \in 1..Len(result.val) :
            /\ CarriesOwnMint(result.val[k])
            /\ op = "get_multiple_associated_token_accounts" =>
                  result.val[k].token_program =
                      pubkey_to_string(MintAccountOf(result.val[k]).owner)

\* C27, the wallet reader alone: every token account get_all_token_accounts
\* returns carries the supply and decimals of its own mint
C27_OriginalOfWallet ==
    (pc = "done" /\ op = "get_all_token_accounts" /\ result.ok) =>
        \A k \in 1..Len(result.val) : CarriesOwnMint(result.val[k])

(***************************************************************************)
(* Claims about the instructions of a simulation result.                   *)
(***************************************************************************)
\* the inner-instruction groups the provider answered with
GroupsOf == ResponseOf.inner_instructions.some

\* the instruction at position i of group g
ProvidedAt(g, i) == GroupsOf[g].instructions[i]

\* a fully parsed instruction whose parsed value is an object with an
\* object-valued member info
HasInfoObject(instruction) ==
    /\ instruction.ui = "parsed"
    /\ instruction.parsed.j = "obj"
    /\ "info" \in DOMAIN instruction.parsed.v
    /\ instruction.parsed.v["info"].j = "obj"

\* the places <<group, position>> of the instructions with an info object
InfoPlaces ==
    UNION {{<<g, i>> : i \in {i \in 1..Len(GroupsOf[g].instructions) :
                                  HasInfoObject(ProvidedAt(g, i))}} :
           g \in 1..Len(GroupsOf)}

\* provider order: group order, then position within the group
Before(p, q) == p[1] < q[1] \/ (p[1] = q[1] /\ p[2] < q[2])

\* the number of p among the places in provider order
RankOf(p) == 1 + Cardinality({q \in InfoPlaces : Before(q, p)})

\* C29: the instructions of a SimulationResult are, one for one and in
\* provider order (group order, then position within the group), the fully
\* parsed inner instructions whose parsed value is an object with an
\* object-valued info, each with its program, program id and info; the log
\* lines are those received, in their order; a response that holds logs,
\* units and inner instructions is never refused, whatever compiled,
\* partially decoded or info-less instructions it holds
C29_InstructionsInProviderOrder ==
    (/\ pc = "done" /\ op = "simulate_transaction" /\ chain.transport_fails = {}
     /\ ResponseOf.logs # None
     /\ ResponseOf.units_consumed # None
     /\ ResponseOf.inner_instructions # None) =>
        /\ result.ok
        /\ Len(result.val.instructions) = Cardinality(InfoPlaces)
        /\ \A p \in InfoPlaces :
              result.val.instructions[RankOf(p)] =
                  ParsedInstruction(ProvidedAt(p[1], p[2]).program,
                                    ProvidedAt(p[1], p[2]).program_id,
                                    ProvidedAt(p[1], p[2]).parsed.v["info"].v)
        /\ Len(result.val.transaction_logs) = Len(ResponseOf.logs.some)
        /\ \A k \in 1..Len(ResponseOf.logs.some) :
              result.val.transaction_logs[k] = ResponseOf.logs.some[k]

\* three groups holding compiled, partially decoded and info-less
\* instructions among three with an info object have been flattened into
\* three instructions of three different programs, under two log lines
C29_Witness ==
    /\ pc = "done" /\ op = "simulate_transaction" /\ result.ok
    /\ Len(ResponseOf.inner_instructions.some) = 3
    /\ Len(result.val.instructions) = 3
    /\ result.val.instructions[1].program_id = token_program
    /\ result.val.instructions[2].program_id = system_program
    /\ result.val.instructions[3].program_id = token_2022_program
    /\ result.val.instructions[1].info # result.val.instructions[2].info
    /\ result.val.transaction_logs = <<"Program log: b", "Program log: a">>

====
